---- MODULE Spec2Model ----
(***************************************************************************)
(* A model of the mdlayher/arp package: the ARP packet codec, the client's *)
(* Request call with its filtering receive loop, and the server's receive  *)
(* loop.  Byte slices are sequences of 0..255; a Go nil slice is <<>>.     *)
(***************************************************************************)
EXTENDS Integers, Sequences, FiniteSets, TLC

(***************************************************************************)
(* Bounds of the model.                                                    *)
(***************************************************************************)
\* The number of datagrams a transport delivers before it reports an error.
MaxRecv == 2
\* The number of datagrams the server's transport delivers before it
\* reports an error.
MaxServe == 2
\* The number of WriteTo calls the handlers of a server make through Send.
MaxSend == 2

\* The goroutines that use a ServeMux, and the calls of the mux they make in
\* all.
NumTasks == 2
MaxMuxCalls == 3

(***************************************************************************)
(* Program constants.                                                      *)
(***************************************************************************)
OperationRequest == 1
OperationReply == 2
\* ethernet.EtherTypeARP (0x0806) and ethernet.EtherTypeIPv4 (0x0800)
EtherTypeARP == 2054
EtherTypeIPv4 == 2048
\* buf := make([]byte, 128)
BufSize == 128
\* the minimum payload of an Ethernet frame (ethernet.Frame.MarshalBinary)
MinPayload == 46

\* ethernet.Broadcast
Broadcast == <<255, 255, 255, 255, 255, 255>>

(***************************************************************************)
(* Byte-slice helpers: Go's slicing, copy and encoding/binary.             *)
(***************************************************************************)
Min(a, b) == IF a < b THEN a ELSE b

Zeros(n) == [i \in 1..n |-> 0]

\* b[lo:hi] of Go, for 0 <= lo <= hi <= len(b)
Slice(b, lo, hi) == SubSeq(b, lo + 1, hi)

\* dst := make([]byte, n); copy(dst, src)
CopyInto(n, src) == [i \in 1..n |-> IF i <= Len(src) THEN src[i] ELSE 0]

\* binary.BigEndian.Uint16(b[off:off+2])
Uint16(b, off) == b[off + 1] * 256 + b[off + 2]

\* binary.BigEndian.PutUint16 of a 16-bit value
PutUint16(v) == <<(v \div 256) % 256, v % 256>>

\* net.IP.To4: a 4-byte address is itself, a 16-byte IPv4-mapped address is
\* its last four bytes, anything else is nil (<<>>).
To4(ip) ==
    IF Len(ip) = 4 THEN ip
    ELSE IF /\ Len(ip) = 16
            /\ \A i \in 1..10 : ip[i] = 0
            /\ ip[11] = 255
            /\ ip[12] = 255
         THEN SubSeq(ip, 13, 16)
    ELSE <<>>

(***************************************************************************)
(* The packet codec.                                                       *)
(***************************************************************************)
NoPacket ==
    [HardwareType |-> 0, ProtocolType |-> 0, MACLength |-> 0, IPLength |-> 0,
     Operation |-> 0, SenderMAC |-> <<>>, SenderIP |-> <<>>,
     TargetMAC |-> <<>>, TargetIP |-> <<>>]

\* NewPacket without the check of the target IP address.
NewPacketNoTargetIPCheck(op, srcMAC, srcIP, dstMAC, dstIP) ==
    IF Len(srcMAC) < 6 THEN [err |-> "ErrInvalidMAC", p |-> NoPacket]
    ELSE IF Len(dstMAC) < 6 THEN [err |-> "ErrInvalidMAC", p |-> NoPacket]
    ELSE IF Len(srcMAC) # Len(dstMAC)
         THEN [err |-> "ErrInvalidMAC", p |-> NoPacket]
    ELSE IF To4(srcIP) = <<>> THEN [err |-> "ErrInvalidIP", p |-> NoPacket]
    ELSE [err |-> "nil",
          p |-> [HardwareType |-> 1,
                 ProtocolType |-> EtherTypeIPv4,
                 MACLength |-> Len(srcMAC) % 256,
                 IPLength |-> Len(To4(srcIP)) % 256,
                 Operation |-> op,
                 SenderMAC |-> srcMAC,
                 SenderIP |-> To4(srcIP),
                 TargetMAC |-> dstMAC,
                 TargetIP |-> To4(dstIP)]]

\* NewPacket without the comparison of the two hardware address lengths.
NewPacketNoLengthCheck(op, srcMAC, srcIP, dstMAC, dstIP) ==
    IF Len(srcMAC) < 6 THEN [err |-> "ErrInvalidMAC", p |-> NoPacket]
    ELSE IF Len(dstMAC) < 6 THEN [err |-> "ErrInvalidMAC", p |-> NoPacket]
    ELSE IF To4(srcIP) = <<>> THEN [err |-> "ErrInvalidIP", p |-> NoPacket]
    ELSE IF To4(dstIP) = <<>> THEN [err |-> "ErrInvalidIP", p |-> NoPacket]
    ELSE [err |-> "nil",
          p |-> [HardwareType |-> 1,
                 ProtocolType |-> EtherTypeIPv4,
                 MACLength |-> Len(srcMAC) % 256,
                 IPLength |-> Len(To4(srcIP)) % 256,
                 Operation |-> op,
                 SenderMAC |-> srcMAC,
                 SenderIP |-> To4(srcIP),
                 TargetMAC |-> dstMAC,
                 TargetIP |-> To4(dstIP)]]

\* NewPacket without the two checks of the minimum length.
NewPacketNoMinimumLength(op, srcMAC, srcIP, dstMAC, dstIP) ==
    IF Len(srcMAC) # Len(dstMAC)
    THEN [err |-> "ErrInvalidMAC", p |-> NoPacket]
    ELSE IF To4(srcIP) = <<>> THEN [err |-> "ErrInvalidIP", p |-> NoPacket]
    ELSE IF To4(dstIP) = <<>> THEN [err |-> "ErrInvalidIP", p |-> NoPacket]
    ELSE [err |-> "nil",
          p |-> [HardwareType |-> 1,
                 ProtocolType |-> EtherTypeIPv4,
                 MACLength |-> Len(srcMAC) % 256,
                 IPLength |-> Len(To4(srcIP)) % 256,
                 Operation |-> op,
                 SenderMAC |-> srcMAC,
                 SenderIP |-> To4(srcIP),
                 TargetMAC |-> dstMAC,
                 TargetIP |-> To4(dstIP)]]

\* NewPacket that asks for hardware addresses of 8 bytes at least.
NewPacketMinimumEight(op, srcMAC, srcIP, dstMAC, dstIP) ==
    IF Len(srcMAC) < 8 THEN [err |-> "ErrInvalidMAC", p |-> NoPacket]
    ELSE IF Len(dstMAC) < 8 THEN [err |-> "ErrInvalidMAC", p |-> NoPacket]
    ELSE IF Len(srcMAC) # Len(dstMAC)
         THEN [err |-> "ErrInvalidMAC", p |-> NoPacket]
    ELSE IF To4(srcIP) = <<>> THEN [err |-> "ErrInvalidIP", p |-> NoPacket]
    ELSE IF To4(dstIP) = <<>> THEN [err |-> "ErrInvalidIP", p |-> NoPacket]
    ELSE [err |-> "nil",
          p |-> [HardwareType |-> 1,
                 ProtocolType |-> EtherTypeIPv4,
                 MACLength |-> Len(srcMAC) % 256,
                 IPLength |-> Len(To4(srcIP)) % 256,
                 Operation |-> op,
                 SenderMAC |-> srcMAC,
                 SenderIP |-> To4(srcIP),
                 TargetMAC |-> dstMAC,
                 TargetIP |-> To4(dstIP)]]

\* NewPacket that stores the IP addresses as given, without To4.
NewPacketKeepsGivenIP(op, srcMAC, srcIP, dstMAC, dstIP) ==
    IF Len(srcMAC) < 6 THEN [err |-> "ErrInvalidMAC", p |-> NoPacket]
    ELSE IF Len(dstMAC) < 6 THEN [err |-> "ErrInvalidMAC", p |-> NoPacket]
    ELSE IF Len(srcMAC) # Len(dstMAC)
         THEN [err |-> "ErrInvalidMAC", p |-> NoPacket]
    ELSE IF To4(srcIP) = <<>> THEN [err |-> "ErrInvalidIP", p |-> NoPacket]
    ELSE IF To4(dstIP) = <<>> THEN [err |-> "ErrInvalidIP", p |-> NoPacket]
    ELSE [err |-> "nil",
          p |-> [HardwareType |-> 1,
                 ProtocolType |-> EtherTypeIPv4,
                 MACLength |-> Len(srcMAC) % 256,
                 IPLength |-> Len(To4(srcIP)) % 256,
                 Operation |-> op,
                 SenderMAC |-> srcMAC,
                 SenderIP |-> srcIP,
                 TargetMAC |-> dstMAC,
                 TargetIP |-> dstIP]]

\* NewPacket with the IP addresses checked before the hardware addresses.
NewPacketIPFirst(op, srcMAC, srcIP, dstMAC, dstIP) ==
    IF To4(srcIP) = <<>> THEN [err |-> "ErrInvalidIP", p |-> NoPacket]
    ELSE IF To4(dstIP) = <<>> THEN [err |-> "ErrInvalidIP", p |-> NoPacket]
    ELSE IF Len(srcMAC) < 6 THEN [err |-> "ErrInvalidMAC", p |-> NoPacket]
    ELSE IF Len(dstMAC) < 6 THEN [err |-> "ErrInvalidMAC", p |-> NoPacket]
    ELSE IF Len(srcMAC) # Len(dstMAC)
         THEN [err |-> "ErrInvalidMAC", p |-> NoPacket]
    ELSE [err |-> "nil",
          p |-> [HardwareType |-> 1,
                 ProtocolType |-> EtherTypeIPv4,
                 MACLength |-> Len(srcMAC) % 256,
                 IPLength |-> Len(To4(srcIP)) % 256,
                 Operation |-> op,
                 SenderMAC |-> srcMAC,
                 SenderIP |-> To4(srcIP),
                 TargetMAC |-> dstMAC,
                 TargetIP |-> To4(dstIP)]]

NewPacket(op, srcMAC, srcIP, dstMAC, dstIP) ==
    IF Len(srcMAC) < 6 THEN [err |-> "ErrInvalidMAC", p |-> NoPacket]
    ELSE IF Len(dstMAC) < 6 THEN [err |-> "ErrInvalidMAC", p |-> NoPacket]
    ELSE IF Len(srcMAC) # Len(dstMAC)
         THEN [err |-> "ErrInvalidMAC", p |-> NoPacket]
    ELSE IF To4(srcIP) = <<>> THEN [err |-> "ErrInvalidIP", p |-> NoPacket]
    ELSE IF To4(dstIP) = <<>> THEN [err |-> "ErrInvalidIP", p |-> NoPacket]
    ELSE [err |-> "nil",
          p |-> [HardwareType |-> 1,
                 ProtocolType |-> EtherTypeIPv4,
                 MACLength |-> Len(srcMAC) % 256,
                 IPLength |-> Len(To4(srcIP)) % 256,
                 Operation |-> op,
                 SenderMAC |-> srcMAC,
                 SenderIP |-> To4(srcIP),
                 TargetMAC |-> dstMAC,
                 TargetIP |-> To4(dstIP)]]

\* The statement of NewPacket that returns for the arguments: the check that
\* fails first, in the order of the code, or the return of the Packet.
NewPacketReturnAt(op, srcMAC, srcIP, dstMAC, dstIP) ==
    IF Len(srcMAC) < 6 THEN "srcMAC"
    ELSE IF Len(dstMAC) < 6 THEN "dstMAC"
    ELSE IF Len(srcMAC) # Len(dstMAC) THEN "length"
    ELSE IF To4(srcIP) = <<>> THEN "srcIP"
    ELSE IF To4(dstIP) = <<>> THEN "dstIP"
    ELSE "ok"

\* The length of the slice MarshalBinary allocates: the sum is computed in
\* uint8, the type of p.MACLength.
MarshalLen(p) == (16 + ((p.MACLength * 2) % 256)) % 256

\* MarshalBinary that writes the target addresses before the sender
\* addresses.
MarshalBinaryTargetFirst(p) ==
    LET hal == p.MACLength
        pl == p.IPLength
    IN  IF MarshalLen(p) < 8 + 2 * hal + 2 * pl
        THEN [err |-> "panic", b |-> <<>>]
        ELSE [err |-> "nil",
              b |-> PutUint16(p.HardwareType) \o PutUint16(p.ProtocolType)
                    \o <<p.MACLength, p.IPLength>> \o PutUint16(p.Operation)
                    \o CopyInto(hal, p.TargetMAC) \o CopyInto(pl, p.TargetIP)
                    \o CopyInto(hal, p.SenderMAC) \o CopyInto(pl, p.SenderIP)
                    \o Zeros(MarshalLen(p) - (8 + 2 * hal + 2 * pl))]

\* MarshalBinary: slicing past the allocated length panics.
MarshalBinary(p) ==
    LET hal == p.MACLength
        pl == p.IPLength
    IN  IF MarshalLen(p) < 8 + 2 * hal + 2 * pl
        THEN [err |-> "panic", b |-> <<>>]
        ELSE [err |-> "nil",
              b |-> PutUint16(p.HardwareType) \o PutUint16(p.ProtocolType)
                    \o <<p.MACLength, p.IPLength>> \o PutUint16(p.Operation)
                    \o CopyInto(hal, p.SenderMAC) \o CopyInto(pl, p.SenderIP)
                    \o CopyInto(hal, p.TargetMAC) \o CopyInto(pl, p.TargetIP)
                    \o Zeros(MarshalLen(p) - (8 + 2 * hal + 2 * pl))]

\* UnmarshalBinary that takes every hardware address to be 6 bytes long.
UnmarshalBinarySixByteHW(b) ==
    IF Len(b) < 8 THEN [err |-> "ErrUnexpectedEOF", p |-> NoPacket]
    ELSE LET ml == b[5]
             il == b[6]
         IN  IF Len(b) < 8 + (2 * ml) + (2 * il)
             THEN [err |-> "ErrUnexpectedEOF", p |-> NoPacket]
             ELSE IF Len(b) < 8 + (2 * 6) + (2 * il)
             THEN [err |-> "panic", p |-> NoPacket]
             ELSE [err |-> "nil",
                   p |-> [HardwareType |-> Uint16(b, 0),
                          ProtocolType |-> Uint16(b, 2),
                          MACLength |-> ml,
                          IPLength |-> il,
                          Operation |-> Uint16(b, 6),
                          SenderMAC |-> Slice(b, 8, 8 + 6),
                          SenderIP |-> Slice(b, 8 + 6, 8 + 6 + il),
                          TargetMAC |-> Slice(b, 8 + 6 + il, 8 + 2 * 6 + il),
                          TargetIP |->
                              Slice(b, 8 + 2 * 6 + il, 8 + 2 * 6 + 2 * il)]]

\* UnmarshalBinary without the check of the declared lengths against the
\* length of the buffer: the slice expressions panic.
UnmarshalBinaryNoLengthCheck(b) ==
    IF Len(b) < 8 THEN [err |-> "ErrUnexpectedEOF", p |-> NoPacket]
    ELSE LET ml == b[5]
             il == b[6]
         IN  IF Len(b) < 8 + (2 * ml) + (2 * il)
             THEN [err |-> "panic", p |-> NoPacket]
             ELSE [err |-> "nil",
                   p |-> [HardwareType |-> Uint16(b, 0),
                          ProtocolType |-> Uint16(b, 2),
                          MACLength |-> ml,
                          IPLength |-> il,
                          Operation |-> Uint16(b, 6),
                          SenderMAC |-> Slice(b, 8, 8 + ml),
                          SenderIP |-> Slice(b, 8 + ml, 8 + ml + il),
                          TargetMAC |-> Slice(b, 8 + ml + il, 8 + 2 * ml + il),
                          TargetIP |->
                              Slice(b, 8 + 2 * ml + il, 8 + 2 * ml + 2 * il)]]

\* UnmarshalBinary that rejects a buffer longer than the header and the
\* four addresses.
UnmarshalBinaryExactLength(b) ==
    IF Len(b) < 8 THEN [err |-> "ErrUnexpectedEOF", p |-> NoPacket]
    ELSE LET ml == b[5]
             il == b[6]
         IN  IF Len(b) # 8 + (2 * ml) + (2 * il)
             THEN [err |-> "ErrUnexpectedEOF", p |-> NoPacket]
             ELSE [err |-> "nil",
                   p |-> [HardwareType |-> Uint16(b, 0),
                          ProtocolType |-> Uint16(b, 2),
                          MACLength |-> ml,
                          IPLength |-> il,
                          Operation |-> Uint16(b, 6),
                          SenderMAC |-> Slice(b, 8, 8 + ml),
                          SenderIP |-> Slice(b, 8 + ml, 8 + ml + il),
                          TargetMAC |-> Slice(b, 8 + ml + il, 8 + 2 * ml + il),
                          TargetIP |->
                              Slice(b, 8 + 2 * ml + il, 8 + 2 * ml + 2 * il)]]

\* UnmarshalBinary that rejects an operation that is neither Request nor
\* Reply.
UnmarshalBinaryKnownOperations(b) ==
    IF Len(b) < 8 THEN [err |-> "ErrUnexpectedEOF", p |-> NoPacket]
    ELSE LET ml == b[5]
             il == b[6]
         IN  IF Len(b) < 8 + (2 * ml) + (2 * il)
             THEN [err |-> "ErrUnexpectedEOF", p |-> NoPacket]
             ELSE IF Uint16(b, 6) \notin {1, 2}
             THEN [err |-> "errInvalidARPPacket", p |-> NoPacket]
             ELSE [err |-> "nil",
                   p |-> [HardwareType |-> Uint16(b, 0),
                          ProtocolType |-> Uint16(b, 2),
                          MACLength |-> ml,
                          IPLength |-> il,
                          Operation |-> Uint16(b, 6),
                          SenderMAC |-> Slice(b, 8, 8 + ml),
                          SenderIP |-> Slice(b, 8 + ml, 8 + ml + il),
                          TargetMAC |-> Slice(b, 8 + ml + il, 8 + 2 * ml + il),
                          TargetIP |->
                              Slice(b, 8 + 2 * ml + il, 8 + 2 * ml + 2 * il)]]

UnmarshalBinary(b) ==
    IF Len(b) < 8 THEN [err |-> "ErrUnexpectedEOF", p |-> NoPacket]
    ELSE LET ml == b[5]
             il == b[6]
         IN  IF Len(b) < 8 + (2 * ml) + (2 * il)
             THEN [err |-> "ErrUnexpectedEOF", p |-> NoPacket]
             ELSE [err |-> "nil",
                   p |-> [HardwareType |-> Uint16(b, 0),
                          ProtocolType |-> Uint16(b, 2),
                          MACLength |-> ml,
                          IPLength |-> il,
                          Operation |-> Uint16(b, 6),
                          SenderMAC |-> Slice(b, 8, 8 + ml),
                          SenderIP |-> Slice(b, 8 + ml, 8 + ml + il),
                          TargetMAC |-> Slice(b, 8 + ml + il, 8 + 2 * ml + il),
                          TargetIP |->
                              Slice(b, 8 + 2 * ml + il, 8 + 2 * ml + 2 * il)]]

\* The memory behind the address fields of a decoded Packet: the blocks of
\* bytes (b is the buffer given to UnmarshalBinary, sha, spa, tha and tpa
\* are the slices it makes) and, for every address field, the block, the
\* offset and the length of the slice the field is.
NoRef == [blk |-> "b", off |-> 0, len |-> 0]

NoMem ==
    [heap |-> [b |-> <<>>, sha |-> <<>>, spa |-> <<>>, tha |-> <<>>,
               tpa |-> <<>>],
     refs |-> [SenderMAC |-> NoRef, SenderIP |-> NoRef, TargetMAC |-> NoRef,
               TargetIP |-> NoRef]]

\* The bytes of a slice.
Deref(mem, ref) == Slice(mem.heap[ref.blk], ref.off, ref.off + ref.len)

\* UnmarshalBinary with the address fields set to slices of its argument.
UnmarshalBinaryMemShared(b) ==
    IF UnmarshalBinary(b).err # "nil" THEN [NoMem EXCEPT !.heap.b = b]
    ELSE LET ml == b[5]
             il == b[6]
         IN  [NoMem EXCEPT
                 !.heap.b = b,
                 !.refs = [SenderMAC |-> [blk |-> "b", off |-> 8, len |-> ml],
                           SenderIP |->
                               [blk |-> "b", off |-> 8 + ml, len |-> il],
                           TargetMAC |->
                               [blk |-> "b", off |-> 8 + ml + il, len |-> ml],
                           TargetIP |->
                               [blk |-> "b", off |-> 8 + 2 * ml + il,
                                len |-> il]]]

\* The memory after UnmarshalBinary: each address field is a slice made
\* with the declared length, into which the bytes of the argument are
\* copied.
UnmarshalBinaryMem(b) ==
    IF UnmarshalBinary(b).err # "nil" THEN [NoMem EXCEPT !.heap.b = b]
    ELSE LET ml == b[5]
             il == b[6]
         IN  [heap |-> [b |-> b,
                        sha |-> CopyInto(ml, Slice(b, 8, 8 + ml)),
                        spa |-> CopyInto(il, Slice(b, 8 + ml, 8 + ml + il)),
                        tha |-> CopyInto(ml, Slice(b, 8 + ml + il,
                                                   8 + 2 * ml + il)),
                        tpa |-> CopyInto(il, Slice(b, 8 + 2 * ml + il,
                                                   8 + 2 * ml + 2 * il))],
              refs |-> [SenderMAC |-> [blk |-> "sha", off |-> 0, len |-> ml],
                        SenderIP |-> [blk |-> "spa", off |-> 0, len |-> il],
                        TargetMAC |-> [blk |-> "tha", off |-> 0, len |-> ml],
                        TargetIP |-> [blk |-> "tpa", off |-> 0, len |-> il]]]

\* ReadFrom into a buffer: the bytes of the datagram replace the first bytes
\* of the buffer, as many as fit.
ReadOver(buf, data) ==
    [i \in 1..Len(buf) |-> IF i <= Len(data) THEN data[i] ELSE buf[i]]

(***************************************************************************)
(* The Ethernet frame collaborator (github.com/mdlayher/ethernet), for     *)
(* frames without VLAN tags.                                               *)
(***************************************************************************)
NoFrame == [Destination |-> <<>>, Source |-> <<>>, EtherType |-> 0,
            Payload |-> <<>>]

\* ethernet.Frame.MarshalBinary: the payload is padded to MinPayload bytes.
FrameMarshalBinary(f) ==
    CopyInto(6, f.Destination) \o CopyInto(6, f.Source)
        \o PutUint16(f.EtherType)
        \o f.Payload \o Zeros(IF Len(f.Payload) < MinPayload
                              THEN MinPayload - Len(f.Payload) ELSE 0)

\* ethernet.Frame.UnmarshalBinary
FrameUnmarshalBinary(b) ==
    IF Len(b) < 14 THEN [err |-> "ErrUnexpectedEOF", f |-> NoFrame]
    ELSE [err |-> "nil",
          f |-> [Destination |-> Slice(b, 0, 6),
                 Source |-> Slice(b, 6, 12),
                 EtherType |-> Uint16(b, 12),
                 Payload |-> Slice(b, 14, Len(b))]]

(***************************************************************************)
(* Addresses and datagrams of the environment.                             *)
(***************************************************************************)
LocalHW == <<222, 173, 190, 239, 222, 173>>
OtherHW == <<0, 0, 0, 0, 0, 0>>
PeerA == <<170, 187, 204, 221, 238, 255>>
PeerB == <<2, 0, 0, 0, 0, 11>>
\* a 20-byte IP-over-InfiniBand hardware address
InfiniBandHW == [i \in 1..20 |-> i]

LocalIP == <<192, 168, 1, 1>>
OtherIP == <<192, 168, 1, 2>>
PeerIP == <<192, 168, 1, 10>>
\* PeerIP in its 16-byte IPv4-mapped form, and net.IPv6loopback
PeerIPMapped == Zeros(10) \o <<255, 255>> \o PeerIP
IPv6Loopback == Zeros(15) \o <<1>>

\* An ARP packet as a peer puts it on the wire (RFC 826).
WireARP(op, sha, spa, tha, tpa) ==
    <<0, 1, 8, 0, Len(sha), Len(spa), 0, op>> \o sha \o spa \o tha \o tpa

\* An ARP header whose declared address lengths exceed what follows it.
TruncatedARP == <<0, 1, 8, 0, 255, 255, 0, 2>>

\* An Ethernet frame as a peer puts it on the wire, padded to the minimum
\* frame size.
WireFrame(dst, src, et, payload) ==
    dst \o src \o PutUint16(et) \o payload
        \o Zeros(IF Len(payload) < MinPayload
                 THEN MinPayload - Len(payload) ELSE 0)

\* ARP packets from PeerA with every combination of operation, target
\* hardware address and target IP address, the reply of PeerB to the local
\* interface, and a truncated packet.
WirePayloads ==
    {WireARP(op, PeerA, PeerIP, tha, tpa) :
        op \in {OperationRequest, OperationReply},
        tha \in {LocalHW, OtherHW},
        tpa \in {LocalIP, OtherIP}}
    \cup {WireARP(OperationReply, PeerB, PeerIP, LocalHW, LocalIP),
          TruncatedARP}

\* The datagrams the client's link may deliver: every combination of frame
\* destination, EtherType and payload, a one-byte runt, and a matching reply
\* longer than the receive buffer.
ClientDatagrams ==
    {WireFrame(dst, PeerA, et, pl) :
        dst \in {LocalHW, OtherHW},
        et \in {EtherTypeARP, EtherTypeIPv4},
        pl \in WirePayloads}
    \cup {<<0>>}
    \cup {WireFrame(LocalHW, PeerB, EtherTypeARP,
                    WireARP(OperationReply, PeerB, PeerIP, LocalHW, LocalIP)
                        \o Zeros(BufSize))}

\* Errors of net.PacketConn.ReadFrom: io.EOF, a deadline expiry, another
\* I/O error.
ReadErrors == {"EOF", "ErrTimeout", "ErrIO"}
\* Errors of net.PacketConn.WriteTo.
WriteErrors == {"ErrTimeout", "ErrIO"}

\* n, _, err := p.ReadFrom(buf) followed by buf[:n]: at most BufSize bytes
\* of the datagram reach the caller.
ReadInto(d) == Slice(d, 0, Min(Len(d), BufSize))

(***************************************************************************)
(* State.                                                                  *)
(***************************************************************************)
VARIABLES
    ifiHardwareAddr,  \* Client.ifi.HardwareAddr
    clientIP,         \* Client.ip
    reqIP,            \* the ip argument of the Request call
    cpc,              \* where the Request call is: idle, recv, done
    cret,             \* what Request returned: [hw, err]
    cwrites,          \* the WriteTo calls on Client.p, in order
    creads            \* the results of the ReadFrom calls on Client.p

clientVars ==
    <<ifiHardwareAddr, clientIP, reqIP, cpc, cret, cwrites, creads>>

VARIABLES
    sHandler,         \* Server.Handler: "nil" or "func", a HandlerFunc
    spc,              \* where Serve is: serving, returned, panic
    sret,             \* the error Serve returned
    closed,           \* p.Close() was called on the server's transport
    crashed,          \* a panic ended the process
    sbuf,             \* buf of Serve, reused by every ReadFrom
    sreads,           \* the results of the ReadFrom calls of Serve
    conns,            \* the conn of every goroutine Serve started
    swrites           \* the WriteTo calls on the server's transport

serverVars ==
    <<sHandler, spc, sret, closed, crashed, sbuf, sreads, conns, swrites>>

\* The ServeMux: the table m, the lock mu, the goroutines that call the mux
\* and where each is in its call, the handler invocations made so far, the
\* table writes made so far, and the number of calls started.
VARIABLES
    muxM,
    muxMu,
    muxTask,
    muxCalls,
    muxHandles,
    muxStarted

muxVars == <<muxM, muxMu, muxTask, muxCalls, muxHandles, muxStarted>>

\* A use of the packet codec: the arguments given to NewPacket, what
\* NewPacket returned (or a Packet literal), what MarshalBinary returned for
\* that Packet, what UnmarshalBinary returned for those bytes, and how far
\* the use has got.
VARIABLES
    codecArgs,
    codecPkt,
    codecBytes,
    codecBack,
    codecPc,
    codecAt,          \* the return statement at which NewPacket returned
    codecMem          \* the slices of the decoded Packet and their memory

codecVars ==
    <<codecArgs, codecPkt, codecBytes, codecBack, codecPc, codecAt,
      codecMem>>

\* A use of the request parser: the bytes given to parseRequest, what it
\* returned, and whether it has been called.
VARIABLES
    parseBuf,
    parseRet,
    parsePc

parseVars == <<parseBuf, parseRet, parsePc>>

\* The construction and the housekeeping of a Client: the address list
\* given to newClient, what firstIPv4Addr returned, Client.ip, whether a
\* Client exists, the read deadline, the write deadline and the closed flag
\* of the transport Client.p, and the last method called on the Client.
VARIABLES
    ncAddrs,
    ncRet,
    ncIP,
    ncPc,
    pReadDeadline,
    pWriteDeadline,
    pClosed,
    lastCall

setupVars ==
    <<ncAddrs, ncRet, ncIP, ncPc, pReadDeadline, pWriteDeadline, pClosed,
      lastCall>>

vars == <<clientVars, serverVars, muxVars, codecVars, parseVars, setupVars>>

NoReturn == [hw |-> <<>>, err |-> "none"]

(***************************************************************************)
(* Client.Request                                                          *)
(***************************************************************************)
\* RequestSend that goes on to receive whatever WriteTo returned.
RequestSendIgnoreWriteError(hw, cip, ip, werr) ==
    LET arp == NewPacket(OperationRequest, hw, cip, Broadcast, ip)
        arpb == MarshalBinary(arp.p)
        ethb == FrameMarshalBinary([Destination |-> Broadcast,
                                    Source |-> hw,
                                    EtherType |-> EtherTypeARP,
                                    Payload |-> arpb.b])
    IN  IF arp.err # "nil"
        THEN [writes |-> <<>>, pc |-> "done",
              ret |-> [hw |-> <<>>, err |-> arp.err]]
        ELSE [writes |-> <<[b |-> ethb, addr |-> Broadcast, err |-> werr]>>,
              pc |-> "recv", ret |-> NoReturn]

\* RequestSend that writes the frame a second time.
RequestSendTwice(hw, cip, ip, werr) ==
    LET arp == NewPacket(OperationRequest, hw, cip, Broadcast, ip)
        arpb == MarshalBinary(arp.p)
        ethb == FrameMarshalBinary([Destination |-> Broadcast,
                                    Source |-> hw,
                                    EtherType |-> EtherTypeARP,
                                    Payload |-> arpb.b])
        w == [b |-> ethb, addr |-> Broadcast, err |-> werr]
    IN  IF arp.err # "nil"
        THEN [writes |-> <<>>, pc |-> "done",
              ret |-> [hw |-> <<>>, err |-> arp.err]]
        ELSE IF werr # "nil"
        THEN [writes |-> <<w>>, pc |-> "done",
              ret |-> [hw |-> <<>>, err |-> werr]]
        ELSE [writes |-> <<w, w>>, pc |-> "recv", ret |-> NoReturn]

\* Request up to and including the WriteTo call; werr is the error the
\* transport returns if the call is made.
RequestSend(hw, cip, ip, werr) ==
    LET arp == NewPacket(OperationRequest, hw, cip, Broadcast, ip)
        arpb == MarshalBinary(arp.p)
        ethb == FrameMarshalBinary([Destination |-> Broadcast,
                                    Source |-> hw,
                                    EtherType |-> EtherTypeARP,
                                    Payload |-> arpb.b])
    IN  IF arp.err # "nil"
        THEN [writes |-> <<>>, pc |-> "done",
              ret |-> [hw |-> <<>>, err |-> arp.err]]
        ELSE IF arpb.err # "nil"
        THEN [writes |-> <<>>, pc |-> "panic", ret |-> NoReturn]
        ELSE IF werr # "nil"
        THEN [writes |-> <<[b |-> ethb, addr |-> Broadcast, err |-> werr]>>,
              pc |-> "done", ret |-> [hw |-> <<>>, err |-> werr]]
        ELSE [writes |-> <<[b |-> ethb, addr |-> Broadcast, err |-> werr]>>,
              pc |-> "recv", ret |-> NoReturn]

\* RequestFilter without the check of the target hardware address.
RequestFilterNoTargetMAC(hw, cip, b) ==
    LET eth == FrameUnmarshalBinary(b)
        arp == UnmarshalBinary(eth.f.Payload)
    IN  IF eth.err # "nil"
        THEN [pc |-> "done", ret |-> [hw |-> <<>>, err |-> eth.err]]
        ELSE IF eth.f.Destination # hw
        THEN [pc |-> "recv", ret |-> NoReturn]
        ELSE IF eth.f.EtherType # EtherTypeARP
        THEN [pc |-> "recv", ret |-> NoReturn]
        ELSE IF arp.err # "nil"
        THEN [pc |-> "done", ret |-> [hw |-> <<>>, err |-> arp.err]]
        ELSE IF arp.p.Operation # OperationReply
        THEN [pc |-> "recv", ret |-> NoReturn]
        ELSE IF arp.p.TargetIP # cip
        THEN [pc |-> "recv", ret |-> NoReturn]
        ELSE [pc |-> "done", ret |-> [hw |-> arp.p.SenderMAC, err |-> "nil"]]

\* RequestFilter without the check of the target IP address.
RequestFilterNoTargetIP(hw, cip, b) ==
    LET eth == FrameUnmarshalBinary(b)
        arp == UnmarshalBinary(eth.f.Payload)
    IN  IF eth.err # "nil"
        THEN [pc |-> "done", ret |-> [hw |-> <<>>, err |-> eth.err]]
        ELSE IF eth.f.Destination # hw
        THEN [pc |-> "recv", ret |-> NoReturn]
        ELSE IF eth.f.EtherType # EtherTypeARP
        THEN [pc |-> "recv", ret |-> NoReturn]
        ELSE IF arp.err # "nil"
        THEN [pc |-> "done", ret |-> [hw |-> <<>>, err |-> arp.err]]
        ELSE IF arp.p.Operation # OperationReply
        THEN [pc |-> "recv", ret |-> NoReturn]
        ELSE IF arp.p.TargetMAC # hw
        THEN [pc |-> "recv", ret |-> NoReturn]
        ELSE [pc |-> "done", ret |-> [hw |-> arp.p.SenderMAC, err |-> "nil"]]

\* RequestFilter without the check of the operation.
RequestFilterNoOperation(hw, cip, b) ==
    LET eth == FrameUnmarshalBinary(b)
        arp == UnmarshalBinary(eth.f.Payload)
    IN  IF eth.err # "nil"
        THEN [pc |-> "done", ret |-> [hw |-> <<>>, err |-> eth.err]]
        ELSE IF eth.f.Destination # hw
        THEN [pc |-> "recv", ret |-> NoReturn]
        ELSE IF eth.f.EtherType # EtherTypeARP
        THEN [pc |-> "recv", ret |-> NoReturn]
        ELSE IF arp.err # "nil"
        THEN [pc |-> "done", ret |-> [hw |-> <<>>, err |-> arp.err]]
        ELSE IF arp.p.TargetIP # cip
        THEN [pc |-> "recv", ret |-> NoReturn]
        ELSE IF arp.p.TargetMAC # hw
        THEN [pc |-> "recv", ret |-> NoReturn]
        ELSE [pc |-> "done", ret |-> [hw |-> arp.p.SenderMAC, err |-> "nil"]]

\* RequestFilter that decodes the ARP payload before it looks at the frame.
RequestFilterDecodeFirst(hw, cip, b) ==
    LET eth == FrameUnmarshalBinary(b)
        arp == UnmarshalBinary(eth.f.Payload)
    IN  IF eth.err # "nil"
        THEN [pc |-> "done", ret |-> [hw |-> <<>>, err |-> eth.err]]
        ELSE IF arp.err # "nil"
        THEN [pc |-> "done", ret |-> [hw |-> <<>>, err |-> arp.err]]
        ELSE IF eth.f.Destination # hw
        THEN [pc |-> "recv", ret |-> NoReturn]
        ELSE IF eth.f.EtherType # EtherTypeARP
        THEN [pc |-> "recv", ret |-> NoReturn]
        ELSE IF arp.p.Operation # OperationReply
        THEN [pc |-> "recv", ret |-> NoReturn]
        ELSE IF arp.p.TargetIP # cip
        THEN [pc |-> "recv", ret |-> NoReturn]
        ELSE IF arp.p.TargetMAC # hw
        THEN [pc |-> "recv", ret |-> NoReturn]
        ELSE [pc |-> "done", ret |-> [hw |-> arp.p.SenderMAC, err |-> "nil"]]

\* RequestFilter that skips a payload it cannot decode.
RequestFilterSkipBadARP(hw, cip, b) ==
    LET eth == FrameUnmarshalBinary(b)
        arp == UnmarshalBinary(eth.f.Payload)
    IN  IF eth.err # "nil"
        THEN [pc |-> "done", ret |-> [hw |-> <<>>, err |-> eth.err]]
        ELSE IF eth.f.Destination # hw
        THEN [pc |-> "recv", ret |-> NoReturn]
        ELSE IF eth.f.EtherType # EtherTypeARP
        THEN [pc |-> "recv", ret |-> NoReturn]
        ELSE IF arp.err # "nil"
        THEN [pc |-> "recv", ret |-> NoReturn]
        ELSE IF arp.p.Operation # OperationReply
        THEN [pc |-> "recv", ret |-> NoReturn]
        ELSE IF arp.p.TargetIP # cip
        THEN [pc |-> "recv", ret |-> NoReturn]
        ELSE IF arp.p.TargetMAC # hw
        THEN [pc |-> "recv", ret |-> NoReturn]
        ELSE [pc |-> "done", ret |-> [hw |-> arp.p.SenderMAC, err |-> "nil"]]

\* One pass of the receive loop over the bytes buf[:n] of a datagram.
RequestFilter(hw, cip, b) ==
    LET eth == FrameUnmarshalBinary(b)
        arp == UnmarshalBinary(eth.f.Payload)
    IN  IF eth.err # "nil"
        THEN [pc |-> "done", ret |-> [hw |-> <<>>, err |-> eth.err]]
        ELSE IF eth.f.Destination # hw
        THEN [pc |-> "recv", ret |-> NoReturn]
        ELSE IF eth.f.EtherType # EtherTypeARP
        THEN [pc |-> "recv", ret |-> NoReturn]
        ELSE IF arp.err # "nil"
        THEN [pc |-> "done", ret |-> [hw |-> <<>>, err |-> arp.err]]
        ELSE IF arp.p.Operation # OperationReply
        THEN [pc |-> "recv", ret |-> NoReturn]
        ELSE IF arp.p.TargetIP # cip
        THEN [pc |-> "recv", ret |-> NoReturn]
        ELSE IF arp.p.TargetMAC # hw
        THEN [pc |-> "recv", ret |-> NoReturn]
        ELSE [pc |-> "done", ret |-> [hw |-> arp.p.SenderMAC, err |-> "nil"]]

\* RequestRecv that takes end-of-stream for a clean end, as Serve does.
RequestRecvEOFClean(hw, cip, ev) ==
    IF ev.err = "EOF"
    THEN [pc |-> "done", ret |-> [hw |-> <<>>, err |-> "nil"]]
    ELSE IF ev.err # "nil"
    THEN [pc |-> "done", ret |-> [hw |-> <<>>, err |-> ev.err]]
    ELSE RequestFilter(hw, cip, ev.b)

\* One iteration of the receive loop, given what ReadFrom returned.
RequestRecv(hw, cip, ev) ==
    IF ev.err # "nil"
    THEN [pc |-> "done", ret |-> [hw |-> <<>>, err |-> ev.err]]
    ELSE RequestFilter(hw, cip, ev.b)

\* The call of Request(ip), up to its first ReadFrom.
Request ==
    /\ cpc = "idle"
    /\ \E ip \in {PeerIP, PeerIPMapped, IPv6Loopback, <<>>} :
       \E werr \in {"nil"} \cup WriteErrors :
          LET s == RequestSend(ifiHardwareAddr, clientIP, ip, werr)
          IN  /\ reqIP' = ip
              /\ cwrites' = cwrites \o s.writes
              /\ cpc' = s.pc
              /\ cret' = s.ret
    /\ UNCHANGED <<ifiHardwareAddr, clientIP, creads>>

\* The receive loop where an error of ReadFrom is not returned: the loop
\* calls ReadFrom again.
RequestLoopRetriesOnError ==
    /\ cpc = "recv"
    /\ \E ev \in {[b |-> ReadInto(d), err |-> "nil"] : d \in ClientDatagrams}
                 \cup {[b |-> <<>>, err |-> e] : e \in ReadErrors} :
          /\ ev.err = "nil" => Len(creads) < MaxRecv
          /\ IF ev.err # "nil"
             THEN UNCHANGED <<creads, cpc, cret>>
             ELSE LET s == RequestRecv(ifiHardwareAddr, clientIP, ev)
                  IN  /\ creads' = Append(creads, ev)
                      /\ cpc' = s.pc
                      /\ cret' = s.ret
    /\ UNCHANGED <<ifiHardwareAddr, clientIP, reqIP, cwrites>>

\* ReadFrom returns a datagram or an error, and the loop body runs on it.
RequestLoop ==
    /\ cpc = "recv"
    /\ \E ev \in {[b |-> ReadInto(d), err |-> "nil"] : d \in ClientDatagrams}
                 \cup {[b |-> <<>>, err |-> e] : e \in ReadErrors} :
          /\ ev.err = "nil" => Len(creads) < MaxRecv
          /\ LET s == RequestRecv(ifiHardwareAddr, clientIP, ev)
             IN  /\ creads' = Append(creads, ev)
                 /\ cpc' = s.pc
                 /\ cret' = s.ret
    /\ UNCHANGED <<ifiHardwareAddr, clientIP, reqIP, cwrites>>

(***************************************************************************)
(* The request parser.                                                     *)
(***************************************************************************)
NoRequest == [Operation |-> 0, SenderMAC |-> <<>>, SenderIP |-> <<>>,
              TargetMAC |-> <<>>, TargetIP |-> <<>>]

\* parseRequest without the check of the EtherType.
parseRequestNoEtherTypeCheck(buf) ==
    LET f == FrameUnmarshalBinary(buf)
        p == UnmarshalBinary(f.f.Payload)
    IN  IF f.err # "nil" THEN [err |-> f.err, r |-> NoRequest]
        ELSE IF p.err # "nil" THEN [err |-> p.err, r |-> NoRequest]
        ELSE [err |-> "nil",
              r |-> [Operation |-> p.p.Operation,
                     SenderMAC |-> p.p.SenderMAC,
                     SenderIP |-> p.p.SenderIP,
                     TargetMAC |-> p.p.TargetMAC,
                     TargetIP |-> p.p.TargetIP]]

\* parseRequest with the payload decoded before the EtherType is looked at.
parseRequestDecodesFirst(buf) ==
    LET f == FrameUnmarshalBinary(buf)
        p == UnmarshalBinary(f.f.Payload)
    IN  IF f.err # "nil" THEN [err |-> f.err, r |-> NoRequest]
        ELSE IF p.err # "nil" THEN [err |-> p.err, r |-> NoRequest]
        ELSE IF f.f.EtherType # EtherTypeARP
        THEN [err |-> "errInvalidARPPacket", r |-> NoRequest]
        ELSE [err |-> "nil",
              r |-> [Operation |-> p.p.Operation,
                     SenderMAC |-> p.p.SenderMAC,
                     SenderIP |-> p.p.SenderIP,
                     TargetMAC |-> p.p.TargetMAC,
                     TargetIP |-> p.p.TargetIP]]

parseRequest(buf) ==
    LET f == FrameUnmarshalBinary(buf)
        p == UnmarshalBinary(f.f.Payload)
    IN  IF f.err # "nil" THEN [err |-> f.err, r |-> NoRequest]
        ELSE IF f.f.EtherType # EtherTypeARP
        THEN [err |-> "errInvalidARPPacket", r |-> NoRequest]
        ELSE IF p.err # "nil" THEN [err |-> p.err, r |-> NoRequest]
        ELSE [err |-> "nil",
              r |-> [Operation |-> p.p.Operation,
                     SenderMAC |-> p.p.SenderMAC,
                     SenderIP |-> p.p.SenderIP,
                     TargetMAC |-> p.p.TargetMAC,
                     TargetIP |-> p.p.TargetIP]]

(***************************************************************************)
(* Server.Serve, the goroutine of each conn, and response.Send             *)
(***************************************************************************)
\* The peer address ReadFrom reports: a *raw.Addr, or a net.Addr of another
\* type.
RawAddr(hw) == [raw |-> TRUE, hw |-> hw]
OtherAddr == [raw |-> FALSE, hw |-> <<>>]

\* The datagrams the server's link may deliver from PeerA: an ARP request for
\* the local interface, a frame of zeros, a one-byte runt, and an ARP frame
\* with a truncated payload.
ServerDatagrams ==
    {WireFrame(LocalHW, PeerA, EtherTypeARP,
               WireARP(OperationRequest, PeerA, PeerIP, LocalHW, LocalIP)),
     Zeros(56), <<0>>,
     WireFrame(LocalHW, PeerA, EtherTypeARP, TruncatedARP)}

\* What ReadFrom of the server's transport may return: a datagram from
\* PeerA, a request longer than the buffer from PeerB, a datagram whose peer
\* address is no *raw.Addr, or an error.
ServerEvents ==
    {[b |-> d, addr |-> RawAddr(PeerA), err |-> "nil"] : d \in ServerDatagrams}
    \cup {[b |-> WireFrame(Broadcast, PeerB, EtherTypeARP,
                           WireARP(OperationRequest, PeerB, OtherIP,
                                   OtherHW, LocalIP) \o Zeros(BufSize)),
           addr |-> RawAddr(PeerB), err |-> "nil"]}
    \cup {[b |-> Zeros(56), addr |-> OtherAddr, err |-> "nil"]}
    \cup {[b |-> <<>>, addr |-> OtherAddr, err |-> e] : e \in ReadErrors}

\* ReadFrom(buf): the first n bytes of buf are overwritten.
ReadFromBuf(buf, d) ==
    [i \in 1..Len(buf) |-> IF i <= Len(d) THEN d[i] ELSE buf[i]]

\* What the last Send of a conn returned to its handler; none so far.
NoSendReturn == [n |-> 0, err |-> "none"]

\* newConn: the conn gets its own copy of buf[:n].
newConn(addr, n, buf) ==
    [remoteAddr |-> addr, buf |-> Slice(buf, 0, n), pc |-> "start",
     r |-> NoRequest, sends |-> 0, ret |-> NoSendReturn]

\* c.buf of a conn made with buf: buf[:n] in place of a copy: the bytes
\* the buffer of Serve holds now.
ConnBufShared(i) == Slice(sbuf, 0, Len(conns[i].buf))

\* c.buf as conn.serve reads it: the copy newConn made.
ConnBuf(i) == conns[i].buf

\* What Serve returns when ReadFrom fails with err.
ServeReturnEOFAsError(err) == err

ServeReturn(err) == IF err = "EOF" THEN "nil" ELSE err

\* The loop of Serve with c.serve() called in place, without a goroutine:
\* the next ReadFrom waits for the handling of every earlier datagram.
ServeLoopInPlace ==
    /\ \A i \in 1..Len(conns) : conns[i].pc = "done"
    /\ spc = "serving"
    /\ ~crashed
    /\ \E ev \in ServerEvents :
          /\ ev.err = "nil" => Len(sreads) < MaxServe
          /\ sreads' = Append(sreads, ev)
          /\ IF ev.err # "nil"
             THEN /\ spc' = "returned"
                  /\ sret' = ServeReturn(ev.err)
                  /\ closed' = TRUE
                  /\ UNCHANGED <<sbuf, conns, crashed>>
             ELSE LET n == Min(Len(ev.b), BufSize)
                      buf == ReadFromBuf(sbuf, Slice(ev.b, 0, n))
                  IN  /\ sbuf' = buf
                      /\ IF ev.addr.raw
                         THEN /\ conns' = Append(conns,
                                                 newConn(ev.addr, n, buf))
                              /\ UNCHANGED <<spc, sret, closed, crashed>>
                         ELSE \* addr.(*raw.Addr) panics
                              /\ spc' = "panic"
                              /\ closed' = TRUE
                              /\ crashed' = TRUE
                              /\ UNCHANGED <<sret, conns>>
    /\ UNCHANGED <<sHandler, swrites>>

\* The loop of Serve where the return waits until every goroutine Serve
\* started has ended.
ServeLoopWaitsForConns ==
    /\ spc = "serving"
    /\ ~crashed
    /\ \E ev \in ServerEvents :
          /\ ev.err = "nil" => Len(sreads) < MaxServe
          /\ ev.err # "nil" =>
                \A i \in 1..Len(conns) : conns[i].pc \in {"done", "panic"}
          /\ sreads' = Append(sreads, ev)
          /\ IF ev.err # "nil"
             THEN /\ spc' = "returned"
                  /\ sret' = ServeReturn(ev.err)
                  /\ closed' = TRUE
                  /\ UNCHANGED <<sbuf, conns, crashed>>
             ELSE LET n == Min(Len(ev.b), BufSize)
                      buf == ReadFromBuf(sbuf, Slice(ev.b, 0, n))
                  IN  /\ sbuf' = buf
                      /\ IF ev.addr.raw
                         THEN /\ conns' = Append(conns,
                                                 newConn(ev.addr, n, buf))
                              /\ UNCHANGED <<spc, sret, closed, crashed>>
                         ELSE \* addr.(*raw.Addr) panics
                              /\ spc' = "panic"
                              /\ closed' = TRUE
                              /\ crashed' = TRUE
                              /\ UNCHANGED <<sret, conns>>
    /\ UNCHANGED <<sHandler, swrites>>

\* One iteration of the loop of Serve: ReadFrom, then either the return
\* (with the deferred Close) or the start of a goroutine for the datagram.
ServeLoop ==
    /\ spc = "serving"
    /\ ~crashed
    /\ \E ev \in ServerEvents :
          /\ ev.err = "nil" => Len(sreads) < MaxServe
          /\ sreads' = Append(sreads, ev)
          /\ IF ev.err # "nil"
             THEN /\ spc' = "returned"
                  /\ sret' = ServeReturn(ev.err)
                  /\ closed' = TRUE
                  /\ UNCHANGED <<sbuf, conns, crashed>>
             ELSE LET n == Min(Len(ev.b), BufSize)
                      buf == ReadFromBuf(sbuf, Slice(ev.b, 0, n))
                  IN  /\ sbuf' = buf
                      /\ IF ev.addr.raw
                         THEN /\ conns' = Append(conns,
                                                 newConn(ev.addr, n, buf))
                              /\ UNCHANGED <<spc, sret, closed, crashed>>
                         ELSE \* addr.(*raw.Addr) panics
                              /\ spc' = "panic"
                              /\ closed' = TRUE
                              /\ crashed' = TRUE
                              /\ UNCHANGED <<sret, conns>>
    /\ UNCHANGED <<sHandler, swrites>>

\* conn.serve where a datagram that does not parse makes Serve return the
\* parse error.
ConnServeErrorStopsServe(i) ==
    /\ ~crashed
    /\ conns[i].pc = "start"
    /\ LET req == parseRequest(ConnBuf(i))
       IN  IF req.err # "nil"
           THEN /\ conns' = [conns EXCEPT ![i].pc = "done"]
                /\ spc' = "returned"
                /\ sret' = req.err
                /\ closed' = TRUE
                /\ UNCHANGED crashed
           ELSE IF sHandler = "nil"
           THEN /\ conns' = [conns EXCEPT ![i].pc = "panic"]
                /\ crashed' = TRUE
                /\ UNCHANGED <<spc, sret, closed>>
           ELSE /\ conns' = [conns EXCEPT ![i].pc = "handler", ![i].r = req.r]
                /\ UNCHANGED <<spc, sret, closed, crashed>>
    /\ UNCHANGED <<sHandler, sbuf, sreads, swrites>>

\* conn.serve up to the call of the handler: the request is parsed; a
\* datagram that does not parse ends the goroutine; calling ServeARP on a
\* nil Handler panics.
ConnServe(i) ==
    /\ ~crashed
    /\ conns[i].pc = "start"
    /\ LET req == parseRequest(ConnBuf(i))
       IN  IF req.err # "nil"
           THEN /\ conns' = [conns EXCEPT ![i].pc = "done"]
                /\ UNCHANGED crashed
           ELSE IF sHandler = "nil"
           THEN /\ conns' = [conns EXCEPT ![i].pc = "panic"]
                /\ crashed' = TRUE
           ELSE /\ conns' = [conns EXCEPT ![i].pc = "handler", ![i].r = req.r]
                /\ UNCHANGED crashed
    /\ UNCHANGED <<sHandler, spc, sret, closed, sbuf, sreads, swrites>>

\* response.Send that reports a failed write as a success.
SendReturnDropsError(n, err) == [n |-> n, err |-> "nil"]

\* return r.p.WriteTo(fb, r.remoteAddr): Send returns what WriteTo returned.
SendReturn(n, err) == [n |-> n, err |-> err]

\* response.Send with the two hardware addresses of the frame exchanged.
SendFrameToSender(p) ==
    LET pb == MarshalBinary(p)
    IN  [err |-> pb.err,
         fb |-> FrameMarshalBinary([Destination |-> p.SenderMAC,
                                    Source |-> p.TargetMAC,
                                    EtherType |-> EtherTypeARP,
                                    Payload |-> pb.b])]

\* response.Send(p) up to the WriteTo call: the frame it writes.
SendFrame(p) ==
    LET pb == MarshalBinary(p)
    IN  [err |-> pb.err,
         fb |-> FrameMarshalBinary([Destination |-> p.TargetMAC,
                                    Source |-> p.SenderMAC,
                                    EtherType |-> EtherTypeARP,
                                    Payload |-> pb.b])]

\* The reply a handler builds for the request r, as the proxy ARP daemon
\* and the tests do.
ReplyTo(r) ==
    NewPacket(OperationReply, r.TargetMAC, r.TargetIP, r.SenderMAC, r.SenderIP)

\* The handler of conn i calls w.Send with the reply to its request; the
\* transport reports success or an error.
HandlerSend(i) ==
    /\ ~crashed
    /\ conns[i].pc = "handler"
    /\ Len(swrites) < MaxSend
    /\ \E pk \in {ReplyTo(conns[i].r)} :
          /\ pk.err = "nil"
          /\ LET f == SendFrame(pk.p)
             IN  IF f.err # "nil"
                 THEN /\ conns' = [conns EXCEPT ![i].pc = "panic"]
                      /\ crashed' = TRUE
                      /\ UNCHANGED swrites
                 ELSE \E werr \in {"nil", "ErrIO"} :
                         /\ werr = "nil" => ~closed
                         /\ swrites' = Append(swrites,
                                [p |-> pk.p, b |-> f.fb,
                                 addr |-> conns[i].remoteAddr,
                                 err |-> werr, conn |-> i,
                                 n |-> IF werr = "nil" THEN Len(f.fb) ELSE 0,
                                 onClosed |-> closed])
                         /\ conns' = [conns EXCEPT
                                ![i].sends = @ + 1,
                                ![i].ret = SendReturn(
                                    IF werr = "nil" THEN Len(f.fb) ELSE 0,
                                    werr)]
                         /\ UNCHANGED crashed
    /\ UNCHANGED <<sHandler, spc, sret, closed, sbuf, sreads>>

\* The handler of conn i returns, and with it conn.serve.
HandlerReturn(i) ==
    /\ ~crashed
    /\ conns[i].pc = "handler"
    /\ conns' = [conns EXCEPT ![i].pc = "done"]
    /\ UNCHANGED <<sHandler, spc, sret, closed, crashed, sbuf, sreads,
                   swrites>>

(***************************************************************************)
(* The packet codec, used on its own                                       *)
(***************************************************************************)
\* A second 20-byte hardware address.
InfiniBandPeer == [i \in 1..20 |-> 1]

\* The hardware addresses and the IP addresses given to NewPacket: those of
\* its tests, absent ones, and IPv4 addresses in the 4-byte and in the
\* 16-byte form.
CodecHardwareAddrs ==
    {OtherHW, Broadcast, <<>>, Zeros(5), Zeros(8), InfiniBandHW,
     InfiniBandPeer}
CodecIPs ==
    {PeerIP, LocalIP, PeerIPMapped, IPv6Loopback, <<>>, Zeros(3), Zeros(5)}

CodecArgs ==
    [op : {OperationRequest, OperationReply},
     srcMAC : CodecHardwareAddrs, srcIP : CodecIPs,
     dstMAC : CodecHardwareAddrs, dstIP : CodecIPs]

NoArgs ==
    [op |-> 0, srcMAC |-> <<>>, srcIP |-> <<>>, dstMAC |-> <<>>,
     dstIP |-> <<>>]

\* Packets written as literals: the two of the marshalling tests, the first
\* with an operation that fills both bytes, with a sender hardware address
\* longer than MACLength says, with 16-byte and with 2-byte protocol
\* addresses, and with hardware addresses of 120 and of 128 bytes.
EthernetLiteral ==
    [HardwareType |-> 1, ProtocolType |-> EtherTypeIPv4, MACLength |-> 6,
     IPLength |-> 4, Operation |-> OperationRequest, SenderMAC |-> OtherHW,
     SenderIP |-> PeerIP, TargetMAC |-> Broadcast, TargetIP |-> LocalIP]

InfiniBandLiteral ==
    [HardwareType |-> 32, ProtocolType |-> EtherTypeIPv4, MACLength |-> 20,
     IPLength |-> 4, Operation |-> OperationReply, SenderMAC |-> Zeros(20),
     SenderIP |-> PeerIP, TargetMAC |-> InfiniBandPeer, TargetIP |-> LocalIP]

PacketLiterals ==
    {EthernetLiteral, InfiniBandLiteral,
     [EthernetLiteral EXCEPT !.Operation = 258],
     [EthernetLiteral EXCEPT !.SenderMAC = InfiniBandHW],
     [EthernetLiteral EXCEPT !.IPLength = 16, !.SenderIP = PeerIPMapped,
                             !.TargetIP = IPv6Loopback],
     [EthernetLiteral EXCEPT !.IPLength = 2, !.SenderIP = <<192, 168>>,
                             !.TargetIP = <<10, 1>>],
     [EthernetLiteral EXCEPT !.MACLength = 120, !.SenderMAC = Zeros(120),
                             !.TargetMAC = [i \in 1..120 |-> 1]],
     [EthernetLiteral EXCEPT !.MACLength = 128, !.SenderMAC = Zeros(128),
                             !.TargetMAC = [i \in 1..128 |-> 1]]}

\* Buffers given to UnmarshalBinary as they come from a peer: the short
\* buffers of its tests, an empty one, a header of zeros, headers that
\* declare addresses of 255 bytes followed by 40 bytes, by one byte less
\* than declared and by all that is declared, and a request that lacks its
\* last byte, is complete, and is followed by padding.
CodecBuffers ==
    {Zeros(7), <<0, 1, 8, 0, 255, 4, 0, 1>>, <<0, 1, 8, 0, 6, 255, 0, 1>>,
     <<>>, Zeros(8),
     TruncatedARP \o Zeros(40),
     TruncatedARP \o Zeros(1019),
     TruncatedARP \o Zeros(1020),
     SubSeq(WireARP(OperationRequest, PeerA, PeerIP, LocalHW, LocalIP), 1, 27),
     WireARP(OperationRequest, PeerA, PeerIP, LocalHW, LocalIP),
     WireARP(OperationRequest, PeerA, PeerIP, LocalHW, LocalIP) \o Zeros(18)}

\* The datagrams read into a buffer after it was decoded: bytes of 255 that
\* fill any buffer, and a reply.
NextDatagrams ==
    {[i \in 1..1500 |-> 255],
     WireARP(OperationReply, PeerB, LocalIP, PeerA, PeerIP)}

NoResult == [err |-> "none", p |-> NoPacket]
NoBytes == [err |-> "none", b |-> <<>>]

\* NewPacket is called with the arguments.
CodecNewPacket ==
    /\ codecPc = "args"
    /\ codecPkt' = NewPacket(codecArgs.op, codecArgs.srcMAC, codecArgs.srcIP,
                             codecArgs.dstMAC, codecArgs.dstIP)
    /\ codecAt' = NewPacketReturnAt(codecArgs.op, codecArgs.srcMAC,
                                    codecArgs.srcIP, codecArgs.dstMAC,
                                    codecArgs.dstIP)
    /\ codecPc' = "built"
    /\ UNCHANGED <<codecArgs, codecBytes, codecBack, codecMem>>

\* MarshalBinary is called on the Packet.
CodecMarshal ==
    /\ codecPc = "built"
    /\ codecPkt.err = "nil"
    /\ codecBytes' = MarshalBinary(codecPkt.p)
    /\ codecPc' = "marshalled"
    /\ UNCHANGED <<codecArgs, codecPkt, codecBack, codecAt, codecMem>>

\* UnmarshalBinary is called on the bytes MarshalBinary returned, or on a
\* buffer received.
CodecUnmarshal ==
    /\ codecPc \in {"marshalled", "received"}
    /\ codecBytes.err = "nil"
    /\ codecBack' = UnmarshalBinary(codecBytes.b)
    /\ codecMem' = UnmarshalBinaryMem(codecBytes.b)
    /\ codecPc' = "unmarshalled"
    /\ UNCHANGED <<codecArgs, codecPkt, codecBytes, codecAt>>

\* The caller reads the next datagram into the buffer it gave to
\* UnmarshalBinary, as the receive loops of Serve and of Request do.
CodecOverwrite ==
    /\ codecPc = "unmarshalled"
    /\ \E x \in NextDatagrams :
          codecMem' = [codecMem EXCEPT !.heap.b = ReadOver(@, x)]
    /\ codecPc' = "overwritten"
    /\ UNCHANGED <<codecArgs, codecPkt, codecBytes, codecBack, codecAt>>

(***************************************************************************)
(* ServeMux: Handle and ServeARP, called from several goroutines           *)
(***************************************************************************)
\* The goroutines that call the mux.
MuxTasks == 1..NumTasks

\* The operations and the handlers of the calls.
MuxOperations == {OperationRequest, OperationReply}
MuxHandlers == {"h1", "h2"}

\* NewServeMux: an empty table.
NewServeMux == [op \in {} |-> "nil"]

\* A goroutine that is in no call of the mux.  In a Handle call that a
\* handler makes, caller is the handler that makes it; it is "nil" in every
\* other call.
MuxIdle ==
    [pc |-> "idle", op |-> 0, h |-> "nil", w |-> 0, r |-> NoRequest,
     caller |-> "nil"]

\* sync.RWMutex: the writer that has called Lock and not yet Unlock (0 when
\* there is none) and the holders of the read lock.
MuxUnlocked == [writer |-> 0, readers |-> {}]

\* RLock returns at once whatever the state of the lock.
RLockFreeAlways(mu) == TRUE

\* RLock returns when no writer holds the lock or waits for it.
RLockFree(mu) == mu.writer = 0

\* Lock goes on to wait for the readers when no other writer is in Lock.
LockFree(mu) == mu.writer = 0

\* A writer that waits in Lock gets the lock whatever readers there are.
LockGrantedWithReaders(mu) == TRUE

\* A writer that waits in Lock gets the lock when the last reader is gone.
LockGranted(mu) == mu.readers = {}

\* h, ok := m[op], falling back on the handler of another operation.
MuxLoadAnyHandler(m, op) ==
    IF op \in DOMAIN m THEN [ok |-> TRUE, h |-> m[op]]
    ELSE IF DOMAIN m # {}
    THEN [ok |-> TRUE, h |-> m[CHOOSE x \in DOMAIN m : TRUE]]
    ELSE [ok |-> FALSE, h |-> "nil"]

\* h, ok := m[op]
MuxLoad(m, op) ==
    IF op \in DOMAIN m THEN [ok |-> TRUE, h |-> m[op]]
    ELSE [ok |-> FALSE, h |-> "nil"]

\* A table with nothing but the new entry.
MuxStoreAlone(m, op, h) == [x \in {op} |-> h]

\* m[op] = h
MuxStore(m, op, h) ==
    [x \in DOMAIN m \cup {op} |-> IF x = op THEN h ELSE m[x]]

\* A goroutine calls mux.Handle(op, h).
MuxCallHandle(t) ==
    /\ muxTask[t].pc = "idle"
    /\ muxStarted < MaxMuxCalls
    /\ \E op \in MuxOperations, h \in MuxHandlers :
          muxTask' = [muxTask EXCEPT ![t] = [MuxIdle EXCEPT !.pc = "lock",
                                                          !.op = op, !.h = h]]
    /\ muxStarted' = muxStarted + 1
    /\ UNCHANGED <<muxM, muxMu, muxCalls, muxHandles>>

\* mux.mu.Lock(), first half: the writer announces itself.
MuxLock(t) ==
    /\ muxTask[t].pc = "lock"
    /\ LockFree(muxMu)
    /\ muxMu' = [muxMu EXCEPT !.writer = t]
    /\ muxTask' = [muxTask EXCEPT ![t].pc = "lockwait"]
    /\ UNCHANGED <<muxM, muxCalls, muxHandles, muxStarted>>

\* mux.mu.Lock(), second half: the readers are gone and Lock returns.
MuxLockReturn(t) ==
    /\ muxTask[t].pc = "lockwait"
    /\ LockGranted(muxMu)
    /\ muxTask' = [muxTask EXCEPT ![t].pc = "write"]
    /\ UNCHANGED <<muxM, muxMu, muxCalls, muxHandles, muxStarted>>

\* mux.m[op] = handler
MuxWrite(t) ==
    /\ muxTask[t].pc = "write"
    /\ muxM' = MuxStore(muxM, muxTask[t].op, muxTask[t].h)
    /\ muxHandles' = Append(muxHandles,
                            [op |-> muxTask[t].op, h |-> muxTask[t].h])
    /\ muxTask' = [muxTask EXCEPT ![t].pc = "unlock"]
    /\ UNCHANGED <<muxMu, muxCalls, muxStarted>>

\* mux.mu.Unlock(), and Handle returns: to the goroutine, or to the handler
\* that called it.
MuxUnlock(t) ==
    /\ muxTask[t].pc = "unlock"
    /\ muxMu' = [muxMu EXCEPT !.writer = 0]
    /\ muxTask' = [muxTask EXCEPT ![t] =
                       IF muxTask[t].caller = "nil" THEN MuxIdle
                       ELSE [muxTask[t] EXCEPT !.pc = "running",
                                               !.h = muxTask[t].caller,
                                               !.caller = "nil"]]
    /\ UNCHANGED <<muxM, muxCalls, muxHandles, muxStarted>>

\* A goroutine calls mux.ServeARP(w, r); w is named by the number of the
\* call.
MuxCallServeARP(t) ==
    /\ muxTask[t].pc = "idle"
    /\ muxStarted < MaxMuxCalls
    /\ \E op \in MuxOperations :
          muxTask' = [muxTask EXCEPT ![t] =
                         [MuxIdle EXCEPT !.pc = "rlock", !.w = muxStarted + 1,
                                         !.r = [NoRequest EXCEPT
                                                   !.Operation = op]]]
    /\ muxStarted' = muxStarted + 1
    /\ UNCHANGED <<muxM, muxMu, muxCalls, muxHandles>>

\* mux.mu.RLock()
MuxRLock(t) ==
    /\ muxTask[t].pc = "rlock"
    /\ RLockFree(muxMu)
    /\ muxMu' = [muxMu EXCEPT !.readers = @ \cup {t}]
    /\ muxTask' = [muxTask EXCEPT ![t].pc = "lookup"]
    /\ UNCHANGED <<muxM, muxCalls, muxHandles, muxStarted>>

\* What the lookup of op may yield: the entry of the table, or, when
\* another goroutine is between Lock and Unlock (a data race on the map),
\* anything.
MuxLookupResults(t, op) ==
    IF \E u \in MuxTasks \ {t} : muxTask[u].pc \in {"write", "unlock"}
    THEN {MuxLoad(muxM, op), [ok |-> TRUE, h |-> "torn"],
          [ok |-> FALSE, h |-> "nil"]}
    ELSE {MuxLoad(muxM, op)}

\* h, ok := mux.m[r.Operation]; without an entry ServeARP is about to
\* return, with one h.ServeARP(w, r) is called.
MuxLookup(t) ==
    /\ muxTask[t].pc = "lookup"
    /\ \E res \in MuxLookupResults(t, muxTask[t].r.Operation) :
          IF res.ok
          THEN /\ muxTask' = [muxTask EXCEPT ![t].pc = "running",
                                             ![t].h = res.h]
               /\ muxCalls' = Append(muxCalls,
                                     [h |-> res.h, w |-> muxTask[t].w,
                                      r |-> muxTask[t].r, task |-> t])
          ELSE /\ muxTask' = [muxTask EXCEPT ![t].pc = "runlock"]
               /\ UNCHANGED muxCalls
    /\ UNCHANGED <<muxM, muxMu, muxHandles, muxStarted>>

\* The handler that runs calls mux.Handle(op, h) on the mux that
\* dispatched it, inside ServeARP and so with the read lock held.
MuxHandlerCallsHandle(t) ==
    /\ muxTask[t].pc = "running"
    /\ muxStarted < MaxMuxCalls
    /\ \E op \in MuxOperations, h \in MuxHandlers :
          muxTask' = [muxTask EXCEPT ![t].pc = "lock", ![t].op = op,
                                     ![t].h = h,
                                     ![t].caller = muxTask[t].h]
    /\ muxStarted' = muxStarted + 1
    /\ UNCHANGED <<muxM, muxMu, muxCalls, muxHandles>>

\* The handler returns.
MuxHandlerReturn(t) ==
    /\ muxTask[t].pc = "running"
    /\ muxTask' = [muxTask EXCEPT ![t].pc = "runlock"]
    /\ UNCHANGED <<muxM, muxMu, muxCalls, muxHandles, muxStarted>>

\* The deferred mux.mu.RUnlock(), and ServeARP returns.
MuxRUnlock(t) ==
    /\ muxTask[t].pc = "runlock"
    /\ muxMu' = [muxMu EXCEPT !.readers = @ \ {t}]
    /\ muxTask' = [muxTask EXCEPT ![t] = MuxIdle]
    /\ UNCHANGED <<muxM, muxCalls, muxHandles, muxStarted>>

(***************************************************************************)
(* A call of parseRequest on its own.                                      *)
(***************************************************************************)
\* The reply frame of Test_parseRequest, with its 40 bytes of padding.
ParseReplyFrame ==
    WireFrame(LocalHW, PeerA, EtherTypeARP,
              WireARP(OperationReply, PeerA, PeerIP, LocalHW, LocalIP))
        \o Zeros(26)

\* The buffers given to parseRequest: those of Test_parseRequest (no bytes, a
\* frame of zeros, an ARP frame whose hardware address length misleads, the
\* reply frame), every prefix of the reply frame, and every datagram the
\* links of the client and of the server deliver.
ParseBuffers ==
    {<<>>, Zeros(56),
     Zeros(12) \o PutUint16(EtherTypeARP) \o <<0, 0, 0, 0, 255, 255>>
        \o Zeros(40),
     ParseReplyFrame}
    \cup {SubSeq(ParseReplyFrame, 1, n) : n \in 0..Len(ParseReplyFrame)}
    \cup ClientDatagrams
    \cup ServerDatagrams

NoParse == [err |-> "none", r |-> NoRequest]

\* r, err := parseRequest(buf)
ParseRequestCall ==
    /\ parsePc = "input"
    /\ parseRet' = parseRequest(parseBuf)
    /\ parsePc' = "done"
    /\ UNCHANGED parseBuf

(***************************************************************************)
(* conn.serve with a ServeMux as the Handler of the server: the Request    *)
(* parseRequest returns is given to mux.ServeARP.                          *)
(***************************************************************************)
\* The operations of the packets peers send: Request, Reply, and values
\* that are neither, the least, the greatest and one that fills both bytes
\* among them.
DispatchOperations == {OperationRequest, OperationReply, 0, 3, 258, 65535}

\* The frame of a peer that marshals a Packet with the operation.
DispatchFrame(op) ==
    WireFrame(LocalHW, PeerA, EtherTypeARP,
              MarshalBinary([EthernetLiteral EXCEPT !.Operation = op]).b)

\* The buffers of the conn: the frames of the peers, and a frame of zeros.
DispatchBuffers == {DispatchFrame(op) : op \in DispatchOperations}
                       \cup {Zeros(56)}

\* The Handle calls made on the mux before the server is started.
DispatchRegistrations ==
    {<<>>,
     <<[op |-> OperationRequest, h |-> "h1"]>>,
     <<[op |-> OperationReply, h |-> "h2"]>>,
     <<[op |-> OperationRequest, h |-> "h2"]>>,
     <<[op |-> OperationRequest, h |-> "h1"],
       [op |-> OperationRequest, h |-> "h2"]>>,
     <<[op |-> OperationRequest, h |-> "h1"],
       [op |-> OperationReply, h |-> "h2"]>>}

\* The table after the Handle calls.
RECURSIVE HandleAll(_, _)
HandleAll(m, hs) ==
    IF hs = <<>> THEN m
    ELSE HandleAll(MuxStore(m, Head(hs).op, Head(hs).h), Tail(hs))

\* handler.ServeARP(w, r) of conn.serve, reached when parseRequest returned
\* no error; the goroutine of the conn is the first of the mux.
DispatchServeARP ==
    /\ parsePc = "done"
    /\ parseRet.err = "nil"
    /\ muxTask[1].pc = "idle"
    /\ muxStarted < MaxMuxCalls
    /\ muxTask' = [muxTask EXCEPT ![1] =
                       [MuxIdle EXCEPT !.pc = "rlock", !.w = muxStarted + 1,
                                       !.r = parseRet.r]]
    /\ muxStarted' = muxStarted + 1
    /\ parsePc' = "served"
    /\ UNCHANGED <<parseBuf, parseRet, muxM, muxMu, muxCalls, muxHandles>>

(***************************************************************************)
(* newClient and firstIPv4Addr, and the methods of a Client that only      *)
(* forward to its transport.                                               *)
(***************************************************************************)
\* The most entries an address list has.
MaxAddrs == 3

\* net.IPv4(a, b, c, d): the 16-byte IPv4-mapped form.
IPv4(a, b, c, d) == Zeros(10) \o <<255, 255>> \o <<a, b, c, d>>

\* A net.Addr: a *net.UnixAddr, or a *net.IPNet with its IP and its Mask.
UnixAddr == [network |-> "unix", ip |-> <<>>, mask |-> <<>>]
IPNet(ip, mask) == [network |-> "ip+net", ip |-> ip, mask |-> mask]

\* The entries of Test_firstIPv4Addr: a Unix socket, an IPv4 network without
\* a mask, the IPv6 loopback network, and two IPv4 networks; and an IPv4
\* network whose mask is no prefix.
SetupAddrs ==
    {UnixAddr,
     IPNet(IPv4(192, 168, 1, 1), <<>>),
     IPNet(IPv4(10, 0, 0, 1), <<255, 0, 255, 0>>),
     IPNet(IPv6Loopback, [i \in 1..16 |-> IF i <= 8 THEN 255 ELSE 0]),
     IPNet(IPv4(192, 168, 1, 1), <<255, 255, 255, 0>>),
     IPNet(IPv4(10, 0, 0, 1), <<255, 0, 0, 0>>)}

\* The address lists given to newClient.
AddrLists == UNION {[1..n -> SetupAddrs] : n \in 0..MaxAddrs}

\* The number of leading one bits of a mask, or -1 for a mask that is not
\* ones followed by zeros (net.simpleMaskLength).
LeadingOnes(v) ==
    CASE v = 0 -> 0 [] v = 128 -> 1 [] v = 192 -> 2 [] v = 224 -> 3
      [] v = 240 -> 4 [] v = 248 -> 5 [] v = 252 -> 6 [] v = 254 -> 7
      [] OTHER -> -1

RECURSIVE SimpleMaskLength(_)
SimpleMaskLength(m) ==
    IF m = <<>> THEN 0
    ELSE IF Head(m) = 255
    THEN LET n == SimpleMaskLength(Tail(m))
         IN  IF n = -1 THEN -1 ELSE 8 + n
    ELSE IF /\ LeadingOnes(Head(m)) # -1
            /\ \A i \in 2..Len(m) : m[i] = 0
    THEN LeadingOnes(Head(m))
    ELSE -1

\* a.String() of a *net.IPNet: the text "<nil>" when the IP and the mask do
\* not fit together, else the IP in its shortest form, a slash, and the
\* prefix length (bits) or, for a mask that has none (bits = -1), the mask
\* in hexadecimal.
NilText == [nil |-> TRUE, ip |-> <<>>, bits |-> -1]

IPNetString(a) ==
    LET ip == IF To4(a.ip) # <<>> THEN To4(a.ip)
              ELSE IF Len(a.ip) = 16 THEN a.ip
              ELSE <<>>
        m == IF Len(a.mask) = 4
             THEN IF Len(ip) = 4 THEN a.mask ELSE <<>>
             ELSE IF Len(a.mask) = 16
             THEN IF Len(ip) = 4 THEN SubSeq(a.mask, 13, 16) ELSE a.mask
             ELSE <<>>
    IN  IF ip = <<>> \/ m = <<>> THEN NilText
        ELSE [nil |-> FALSE, ip |-> ip, bits |-> SimpleMaskLength(m)]

\* net.ParseCIDR of such a text: the IP in 16-byte form, or a
\* *net.ParseError for a text that is not an IP, a slash and a prefix length.
ParseCIDR(text) ==
    IF text.nil \/ text.bits = -1
    THEN [err |-> "ParseError", ip |-> <<>>]
    ELSE [err |-> "nil",
          ip |-> IF Len(text.ip) = 4
                 THEN Zeros(10) \o <<255, 255>> \o text.ip
                 ELSE text.ip]

NoAddr == [err |-> "none", ip |-> <<>>]

\* firstIPv4Addr that skips an entry it cannot parse.
RECURSIVE firstIPv4AddrSkipsUnparsable(_)
firstIPv4AddrSkipsUnparsable(addrs) ==
    IF addrs = <<>> THEN [err |-> "errNoIPv4Addr", ip |-> <<>>]
    ELSE IF Head(addrs).network # "ip+net"
    THEN firstIPv4AddrSkipsUnparsable(Tail(addrs))
    ELSE LET c == ParseCIDR(IPNetString(Head(addrs)))
         IN  IF c.err = "nil" /\ To4(c.ip) # <<>>
             THEN [err |-> "nil", ip |-> To4(c.ip)]
             ELSE firstIPv4AddrSkipsUnparsable(Tail(addrs))

RECURSIVE firstIPv4Addr(_)
firstIPv4Addr(addrs) ==
    IF addrs = <<>> THEN [err |-> "errNoIPv4Addr", ip |-> <<>>]
    ELSE IF Head(addrs).network # "ip+net"
    THEN firstIPv4Addr(Tail(addrs))
    ELSE LET c == ParseCIDR(IPNetString(Head(addrs)))
         IN  IF c.err # "nil" THEN [err |-> c.err, ip |-> <<>>]
             ELSE IF To4(c.ip) # <<>>
             THEN [err |-> "nil", ip |-> To4(c.ip)]
             ELSE firstIPv4Addr(Tail(addrs))

\* time.Time{}, and the deadlines a caller sets.
ZeroTime == 0
Deadlines == {ZeroTime, 1, 2}

NoCall == [op |-> "none", t |-> ZeroTime]

\* c, err := newClient(ifi, p, addrs)
newClient ==
    /\ ncPc = "args"
    /\ ncRet' = firstIPv4Addr(ncAddrs)
    /\ ncIP' = ncRet'.ip
    /\ ncPc' = IF ncRet'.err = "nil" THEN "ready" ELSE "failed"
    /\ lastCall' = [op |-> "newClient", t |-> ZeroTime]
    /\ UNCHANGED <<ncAddrs, pReadDeadline, pWriteDeadline, pClosed>>

\* c.SetReadDeadline(t) that calls p.SetDeadline(t).
SetReadDeadlineSetsBoth(t) ==
    /\ ncPc = "ready"
    /\ pReadDeadline' = t
    /\ pWriteDeadline' = t
    /\ lastCall' = [op |-> "SetReadDeadline", t |-> t]
    /\ UNCHANGED <<ncAddrs, ncRet, ncIP, ncPc, pClosed>>

\* c.SetDeadline(t): p.SetDeadline(t)
SetDeadline(t) ==
    /\ ncPc = "ready"
    /\ pReadDeadline' = t
    /\ pWriteDeadline' = t
    /\ lastCall' = [op |-> "SetDeadline", t |-> t]
    /\ UNCHANGED <<ncAddrs, ncRet, ncIP, ncPc, pClosed>>

\* c.SetReadDeadline(t): p.SetReadDeadline(t)
SetReadDeadline(t) ==
    /\ ncPc = "ready"
    /\ pReadDeadline' = t
    /\ lastCall' = [op |-> "SetReadDeadline", t |-> t]
    /\ UNCHANGED <<ncAddrs, ncRet, ncIP, ncPc, pWriteDeadline, pClosed>>

\* c.SetWriteDeadline(t): p.SetWriteDeadline(t)
SetWriteDeadline(t) ==
    /\ ncPc = "ready"
    /\ pWriteDeadline' = t
    /\ lastCall' = [op |-> "SetWriteDeadline", t |-> t]
    /\ UNCHANGED <<ncAddrs, ncRet, ncIP, ncPc, pReadDeadline, pClosed>>

\* c.Close(): p.Close()
Close ==
    /\ ncPc = "ready"
    /\ pClosed' = TRUE
    /\ lastCall' = [op |-> "Close", t |-> ZeroTime]
    /\ UNCHANGED <<ncAddrs, ncRet, ncIP, ncPc, pReadDeadline, pWriteDeadline>>

\* A program that uses the client: the Client as newClient or a test sets it
\* up, and no Serve call.
ClientInit ==
    /\ ifiHardwareAddr \in {LocalHW, <<>>, <<1, 2, 3, 4, 5>>, InfiniBandHW}
    /\ clientIP \in {LocalIP, <<>>}
    /\ reqIP = <<>>
    /\ cpc = "idle"
    /\ cret = NoReturn
    /\ cwrites = <<>>
    /\ creads = <<>>
    /\ sHandler = "nil"
    /\ spc = "idle"
    /\ sret = "none"
    /\ closed = FALSE
    /\ crashed = FALSE
    /\ sbuf = <<>>
    /\ sreads = <<>>
    /\ conns = <<>>
    /\ swrites = <<>>
    /\ muxM = NewServeMux
    /\ muxMu = MuxUnlocked
    /\ muxTask = [t \in MuxTasks |-> MuxIdle]
    /\ muxCalls = <<>>
    /\ muxHandles = <<>>
    /\ muxStarted = 0
    /\ codecArgs = NoArgs
    /\ codecPkt = NoResult
    /\ codecBytes = NoBytes
    /\ codecBack = NoResult
    /\ codecAt = "none"
    /\ codecMem = NoMem
    /\ codecPc = "none"
    /\ parseBuf = <<>>
    /\ parseRet = NoParse
    /\ parsePc = "none"
    /\ ncAddrs = <<>>
    /\ ncRet = NoAddr
    /\ ncIP = <<>>
    /\ ncPc = "none"
    /\ pReadDeadline = ZeroTime
    /\ pWriteDeadline = ZeroTime
    /\ pClosed = FALSE
    /\ lastCall = NoCall

\* A program that uses the server: Serve is called on a Server with or
\* without a Handler, and there is no Client.
ServerInit ==
    /\ sHandler \in {"nil", "func"}
    /\ spc = "serving"
    /\ sret = "none"
    /\ closed = FALSE
    /\ crashed = FALSE
    /\ sbuf = Zeros(BufSize)
    /\ sreads = <<>>
    /\ conns = <<>>
    /\ swrites = <<>>
    /\ ifiHardwareAddr = <<>>
    /\ clientIP = <<>>
    /\ reqIP = <<>>
    /\ cpc = "none"
    /\ cret = NoReturn
    /\ cwrites = <<>>
    /\ creads = <<>>
    /\ muxM = NewServeMux
    /\ muxMu = MuxUnlocked
    /\ muxTask = [t \in MuxTasks |-> MuxIdle]
    /\ muxCalls = <<>>
    /\ muxHandles = <<>>
    /\ muxStarted = 0
    /\ codecArgs = NoArgs
    /\ codecPkt = NoResult
    /\ codecBytes = NoBytes
    /\ codecBack = NoResult
    /\ codecAt = "none"
    /\ codecMem = NoMem
    /\ codecPc = "none"
    /\ parseBuf = <<>>
    /\ parseRet = NoParse
    /\ parsePc = "none"
    /\ ncAddrs = <<>>
    /\ ncRet = NoAddr
    /\ ncIP = <<>>
    /\ ncPc = "none"
    /\ pReadDeadline = ZeroTime
    /\ pWriteDeadline = ZeroTime
    /\ pClosed = FALSE
    /\ lastCall = NoCall

\* A program that uses a ServeMux of its own from several goroutines, with
\* neither a Client nor a Serve call.
MuxInit ==
    /\ muxM = NewServeMux
    /\ muxMu = MuxUnlocked
    /\ muxTask = [t \in MuxTasks |-> MuxIdle]
    /\ muxCalls = <<>>
    /\ muxHandles = <<>>
    /\ muxStarted = 0
    /\ ifiHardwareAddr = <<>>
    /\ clientIP = <<>>
    /\ reqIP = <<>>
    /\ cpc = "none"
    /\ cret = NoReturn
    /\ cwrites = <<>>
    /\ creads = <<>>
    /\ sHandler = "nil"
    /\ spc = "idle"
    /\ sret = "none"
    /\ closed = FALSE
    /\ crashed = FALSE
    /\ sbuf = <<>>
    /\ sreads = <<>>
    /\ conns = <<>>
    /\ swrites = <<>>
    /\ codecArgs = NoArgs
    /\ codecPkt = NoResult
    /\ codecBytes = NoBytes
    /\ codecBack = NoResult
    /\ codecAt = "none"
    /\ codecMem = NoMem
    /\ codecPc = "none"
    /\ parseBuf = <<>>
    /\ parseRet = NoParse
    /\ parsePc = "none"
    /\ ncAddrs = <<>>
    /\ ncRet = NoAddr
    /\ ncIP = <<>>
    /\ ncPc = "none"
    /\ pReadDeadline = ZeroTime
    /\ pWriteDeadline = ZeroTime
    /\ pClosed = FALSE
    /\ lastCall = NoCall

\* A program that uses the codec alone: NewPacket on arguments, or
\* MarshalBinary on a Packet literal, and then UnmarshalBinary; or
\* UnmarshalBinary on a buffer received.
CodecInit ==
    /\ \/ /\ codecPc = "args"
          /\ codecArgs \in CodecArgs
          /\ codecPkt = NoResult
          /\ codecBytes = NoBytes
       \/ /\ codecPc = "built"
          /\ codecArgs = NoArgs
          /\ codecPkt \in {[err |-> "nil", p |-> q] : q \in PacketLiterals}
          /\ codecBytes = NoBytes
       \/ /\ codecPc = "received"
          /\ codecArgs = NoArgs
          /\ codecPkt = NoResult
          /\ codecBytes \in {[err |-> "nil", b |-> x] : x \in CodecBuffers}
    /\ codecBack = NoResult
    /\ codecAt = "none"
    /\ codecMem = NoMem
    /\ ifiHardwareAddr = <<>>
    /\ clientIP = <<>>
    /\ reqIP = <<>>
    /\ cpc = "none"
    /\ cret = NoReturn
    /\ cwrites = <<>>
    /\ creads = <<>>
    /\ sHandler = "nil"
    /\ spc = "idle"
    /\ sret = "none"
    /\ closed = FALSE
    /\ crashed = FALSE
    /\ sbuf = <<>>
    /\ sreads = <<>>
    /\ conns = <<>>
    /\ swrites = <<>>
    /\ muxM = NewServeMux
    /\ muxMu = MuxUnlocked
    /\ muxTask = [t \in MuxTasks |-> MuxIdle]
    /\ muxCalls = <<>>
    /\ muxHandles = <<>>
    /\ muxStarted = 0
    /\ parseBuf = <<>>
    /\ parseRet = NoParse
    /\ parsePc = "none"
    /\ ncAddrs = <<>>
    /\ ncRet = NoAddr
    /\ ncIP = <<>>
    /\ ncPc = "none"
    /\ pReadDeadline = ZeroTime
    /\ pWriteDeadline = ZeroTime
    /\ pClosed = FALSE
    /\ lastCall = NoCall

ClientNext ==
    \/ Request
        /\ UNCHANGED <<serverVars, muxVars, codecVars, parseVars, setupVars>>
    \/ RequestLoop
        /\ UNCHANGED <<serverVars, muxVars, codecVars, parseVars, setupVars>>

ClientSpec == ClientInit /\ [][ClientNext]_vars

\* The same program with a transport that does deliver: a ReadFrom call
\* that the transport has a datagram or an error for returns, and the body
\* of the loop runs on it.
ClientLiveSpec ==
    /\ ClientSpec
    /\ WF_vars(RequestLoop
                  /\ UNCHANGED <<serverVars, muxVars, codecVars, parseVars,
                                 setupVars>>)

ServerNext ==
    \/ ServeLoop
        /\ UNCHANGED <<clientVars, muxVars, codecVars, parseVars, setupVars>>
    \/ \E i \in 1..Len(conns) :
          ConnServe(i)
              /\ UNCHANGED <<clientVars, muxVars, codecVars, parseVars, setupVars>>
    \/ \E i \in 1..Len(conns) :
          HandlerSend(i)
              /\ UNCHANGED <<clientVars, muxVars, codecVars, parseVars, setupVars>>
    \/ \E i \in 1..Len(conns) :
          HandlerReturn(i)
              /\ UNCHANGED <<clientVars, muxVars, codecVars, parseVars, setupVars>>

ServerSpec == ServerInit /\ [][ServerNext]_vars

MuxNext ==
    \/ \E t \in MuxTasks :
          MuxCallHandle(t)
              /\ UNCHANGED <<clientVars, serverVars, codecVars, parseVars, setupVars>>
    \/ \E t \in MuxTasks :
          MuxLock(t)
              /\ UNCHANGED <<clientVars, serverVars, codecVars, parseVars, setupVars>>
    \/ \E t \in MuxTasks :
          MuxLockReturn(t)
              /\ UNCHANGED <<clientVars, serverVars, codecVars, parseVars, setupVars>>
    \/ \E t \in MuxTasks :
          MuxWrite(t)
              /\ UNCHANGED <<clientVars, serverVars, codecVars, parseVars, setupVars>>
    \/ \E t \in MuxTasks :
          MuxUnlock(t)
              /\ UNCHANGED <<clientVars, serverVars, codecVars, parseVars, setupVars>>
    \/ \E t \in MuxTasks :
          MuxCallServeARP(t)
              /\ UNCHANGED <<clientVars, serverVars, codecVars, parseVars, setupVars>>
    \/ \E t \in MuxTasks :
          MuxRLock(t)
              /\ UNCHANGED <<clientVars, serverVars, codecVars, parseVars, setupVars>>
    \/ \E t \in MuxTasks :
          MuxLookup(t)
              /\ UNCHANGED <<clientVars, serverVars, codecVars, parseVars, setupVars>>
    \/ \E t \in MuxTasks :
          MuxHandlerCallsHandle(t)
              /\ UNCHANGED <<clientVars, serverVars, codecVars, parseVars, setupVars>>
    \/ \E t \in MuxTasks :
          MuxHandlerReturn(t)
              /\ UNCHANGED <<clientVars, serverVars, codecVars, parseVars, setupVars>>
    \/ \E t \in MuxTasks :
          MuxRUnlock(t)
              /\ UNCHANGED <<clientVars, serverVars, codecVars, parseVars, setupVars>>

MuxSpec == MuxInit /\ [][MuxNext]_vars

\* The same program with goroutines that are scheduled: a goroutine that
\* can take its next step in a call of the mux takes it, and a handler that
\* can return does.
MuxLiveSpec ==
    /\ MuxSpec
    /\ \A t \in MuxTasks :
          WF_vars((\/ MuxLock(t)
                   \/ MuxLockReturn(t)
                   \/ MuxWrite(t)
                   \/ MuxUnlock(t)
                   \/ MuxRLock(t)
                   \/ MuxLookup(t)
                   \/ MuxHandlerReturn(t)
                   \/ MuxRUnlock(t))
                  /\ UNCHANGED <<clientVars, serverVars, codecVars,
                                 parseVars, setupVars>>)

CodecNext ==
    \/ CodecNewPacket
        /\ UNCHANGED <<clientVars, serverVars, muxVars, parseVars, setupVars>>
    \/ CodecMarshal
        /\ UNCHANGED <<clientVars, serverVars, muxVars, parseVars, setupVars>>
    \/ CodecUnmarshal
        /\ UNCHANGED <<clientVars, serverVars, muxVars, parseVars, setupVars>>
    \/ CodecOverwrite
        /\ UNCHANGED <<clientVars, serverVars, muxVars, parseVars, setupVars>>

CodecSpec == CodecInit /\ [][CodecNext]_vars

\* A program that calls parseRequest on a buffer, and nothing else.
ParseInit ==
    /\ parseBuf \in ParseBuffers
    /\ parseRet = NoParse
    /\ parsePc = "input"
    /\ ifiHardwareAddr = <<>>
    /\ clientIP = <<>>
    /\ reqIP = <<>>
    /\ cpc = "none"
    /\ cret = NoReturn
    /\ cwrites = <<>>
    /\ creads = <<>>
    /\ sHandler = "nil"
    /\ spc = "idle"
    /\ sret = "none"
    /\ closed = FALSE
    /\ crashed = FALSE
    /\ sbuf = <<>>
    /\ sreads = <<>>
    /\ conns = <<>>
    /\ swrites = <<>>
    /\ muxM = NewServeMux
    /\ muxMu = MuxUnlocked
    /\ muxTask = [t \in MuxTasks |-> MuxIdle]
    /\ muxCalls = <<>>
    /\ muxHandles = <<>>
    /\ muxStarted = 0
    /\ codecArgs = NoArgs
    /\ codecPkt = NoResult
    /\ codecBytes = NoBytes
    /\ codecBack = NoResult
    /\ codecAt = "none"
    /\ codecMem = NoMem
    /\ codecPc = "none"
    /\ ncAddrs = <<>>
    /\ ncRet = NoAddr
    /\ ncIP = <<>>
    /\ ncPc = "none"
    /\ pReadDeadline = ZeroTime
    /\ pWriteDeadline = ZeroTime
    /\ pClosed = FALSE
    /\ lastCall = NoCall

ParseNext ==
    ParseRequestCall
        /\ UNCHANGED <<clientVars, serverVars, muxVars, codecVars, setupVars>>

ParseSpec == ParseInit /\ [][ParseNext]_vars

\* A conn of a server whose Handler is a ServeMux.
DispatchInit ==
    /\ parseBuf \in DispatchBuffers
    /\ parseRet = NoParse
    /\ parsePc = "input"
    /\ ifiHardwareAddr = <<>>
    /\ clientIP = <<>>
    /\ reqIP = <<>>
    /\ cpc = "none"
    /\ cret = NoReturn
    /\ cwrites = <<>>
    /\ creads = <<>>
    /\ sHandler = "nil"
    /\ spc = "idle"
    /\ sret = "none"
    /\ closed = FALSE
    /\ crashed = FALSE
    /\ sbuf = <<>>
    /\ sreads = <<>>
    /\ conns = <<>>
    /\ swrites = <<>>
    /\ muxHandles \in DispatchRegistrations
    /\ muxM = HandleAll(NewServeMux, muxHandles)
    /\ muxMu = MuxUnlocked
    /\ muxTask = [t \in MuxTasks |-> MuxIdle]
    /\ muxCalls = <<>>
    /\ muxStarted = Len(muxHandles)
    /\ codecArgs = NoArgs
    /\ codecPkt = NoResult
    /\ codecBytes = NoBytes
    /\ codecBack = NoResult
    /\ codecAt = "none"
    /\ codecMem = NoMem
    /\ codecPc = "none"
    /\ ncAddrs = <<>>
    /\ ncRet = NoAddr
    /\ ncIP = <<>>
    /\ ncPc = "none"
    /\ pReadDeadline = ZeroTime
    /\ pWriteDeadline = ZeroTime
    /\ pClosed = FALSE
    /\ lastCall = NoCall

DispatchNext ==
    \/ ParseRequestCall
        /\ UNCHANGED <<clientVars, serverVars, muxVars, codecVars, setupVars>>
    \/ DispatchServeARP
        /\ UNCHANGED <<clientVars, serverVars, codecVars, setupVars>>
    \/ \E t \in MuxTasks : MuxRLock(t)
        /\ UNCHANGED <<clientVars, serverVars, codecVars, parseVars,
                       setupVars>>
    \/ \E t \in MuxTasks : MuxLookup(t)
        /\ UNCHANGED <<clientVars, serverVars, codecVars, parseVars,
                       setupVars>>
    \/ \E t \in MuxTasks : MuxHandlerReturn(t)
        /\ UNCHANGED <<clientVars, serverVars, codecVars, parseVars,
                       setupVars>>
    \/ \E t \in MuxTasks : MuxRUnlock(t)
        /\ UNCHANGED <<clientVars, serverVars, codecVars, parseVars,
                       setupVars>>

DispatchSpec == DispatchInit /\ [][DispatchNext]_vars

\* A program that builds a Client from the addresses of an interface and a
\* transport, and then sets deadlines on the Client and closes it.
SetupInit ==
    /\ ncAddrs \in AddrLists
    /\ ncRet = NoAddr
    /\ ncIP = <<>>
    /\ ncPc = "args"
    /\ pReadDeadline = ZeroTime
    /\ pWriteDeadline = ZeroTime
    /\ pClosed = FALSE
    /\ lastCall = NoCall
    /\ ifiHardwareAddr = <<>>
    /\ clientIP = <<>>
    /\ reqIP = <<>>
    /\ cpc = "none"
    /\ cret = NoReturn
    /\ cwrites = <<>>
    /\ creads = <<>>
    /\ sHandler = "nil"
    /\ spc = "idle"
    /\ sret = "none"
    /\ closed = FALSE
    /\ crashed = FALSE
    /\ sbuf = <<>>
    /\ sreads = <<>>
    /\ conns = <<>>
    /\ swrites = <<>>
    /\ muxM = NewServeMux
    /\ muxMu = MuxUnlocked
    /\ muxTask = [t \in MuxTasks |-> MuxIdle]
    /\ muxCalls = <<>>
    /\ muxHandles = <<>>
    /\ muxStarted = 0
    /\ codecArgs = NoArgs
    /\ codecPkt = NoResult
    /\ codecBytes = NoBytes
    /\ codecBack = NoResult
    /\ codecAt = "none"
    /\ codecMem = NoMem
    /\ codecPc = "none"
    /\ parseBuf = <<>>
    /\ parseRet = NoParse
    /\ parsePc = "none"

SetupNext ==
    \/ newClient
        /\ UNCHANGED <<clientVars, serverVars, muxVars, codecVars, parseVars>>
    \/ \E t \in Deadlines :
          SetDeadline(t)
              /\ UNCHANGED <<clientVars, serverVars, muxVars, codecVars,
                             parseVars>>
    \/ \E t \in Deadlines :
          SetReadDeadline(t)
              /\ UNCHANGED <<clientVars, serverVars, muxVars, codecVars,
                             parseVars>>
    \/ \E t \in Deadlines :
          SetWriteDeadline(t)
              /\ UNCHANGED <<clientVars, serverVars, muxVars, codecVars,
                             parseVars>>
    \/ Close
        /\ UNCHANGED <<clientVars, serverVars, muxVars, codecVars, parseVars>>

SetupSpec == SetupInit /\ [][SetupNext]_vars

(***************************************************************************)
(* What a datagram says on the wire, read off the layouts of Ethernet II   *)
(* and RFC 826.  The properties below are stated over these.               *)
(***************************************************************************)
Last(s) == s[Len(s)]

WireWellFormedFrame(b) == Len(b) >= 14
WireDestination(b) == SubSeq(b, 1, 6)
WireEtherType(b) == b[13] * 256 + b[14]
WirePayload(b) == SubSeq(b, 15, Len(b))

WireWellFormedARP(a) == Len(a) >= 8 /\ Len(a) >= 8 + 2 * a[5] + 2 * a[6]
WireOperation(a) == a[7] * 256 + a[8]
WireSenderHW(a) == SubSeq(a, 9, 8 + a[5])
WireTargetHW(a) == SubSeq(a, 9 + a[5] + a[6], 8 + 2 * a[5] + a[6])
WireTargetIP(a) == SubSeq(a, 9 + 2 * a[5] + a[6], 8 + 2 * a[5] + 2 * a[6])

\* The frame-level filters: an ARP frame addressed to the local interface.
PassesFrameFilters(b) ==
    /\ WireWellFormedFrame(b)
    /\ WireEtherType(b) = EtherTypeARP
    /\ WireDestination(b) = ifiHardwareAddr

\* All five filters of the receive loop.
PassesAllFilters(b) ==
    /\ PassesFrameFilters(b)
    /\ WireWellFormedARP(WirePayload(b))
    /\ WireOperation(WirePayload(b)) = OperationReply
    /\ WireTargetIP(WirePayload(b)) = clientIP
    /\ WireTargetHW(WirePayload(b)) = ifiHardwareAddr

IsIPv4(ip) ==
    \/ Len(ip) = 4
    \/ Len(ip) = 16 /\ SubSeq(ip, 1, 12) = Zeros(10) \o <<255, 255>>

\* The arguments of the call let the request packet be built.
ConstructionSucceeds ==
    /\ Len(ifiHardwareAddr) = 6
    /\ IsIPv4(clientIP)
    /\ IsIPv4(reqIP)

Failed(e) == cpc = "done" /\ cret = [hw |-> <<>>, err |-> e]

(***************************************************************************)
(* Client.Request: the filtering receive loop.                             *)
(***************************************************************************)

\* C1: when Request returns successfully, the frame it returned on passes
\* all five filters, no frame received before it does, and the address
\* returned is the sender hardware address of that frame.
C1_ReturnsFirstMatchingSender ==
    (cpc = "done" /\ cret.err = "nil") =>
        /\ creads # <<>>
        /\ Last(creads).err = "nil"
        /\ PassesAllFilters(Last(creads).b)
        /\ \A j \in 1..(Len(creads) - 1) :
              creads[j].err = "nil" /\ ~PassesAllFilters(creads[j].b)
        /\ cret.hw = WireSenderHW(WirePayload(Last(creads).b))

\* A reply that fails only the target hardware address filter, from another
\* sender, came before the reply that Request returned on.
C1_Witness ==
    /\ cpc = "done"
    /\ cret.err = "nil"
    /\ Len(creads) = 2
    /\ PassesFrameFilters(creads[1].b)
    /\ WireWellFormedARP(WirePayload(creads[1].b))
    /\ WireOperation(WirePayload(creads[1].b)) = OperationReply
    /\ WireTargetIP(WirePayload(creads[1].b)) = clientIP
    /\ WireTargetHW(WirePayload(creads[1].b)) # ifiHardwareAddr
    /\ WireSenderHW(WirePayload(creads[1].b)) # cret.hw

\* The reply b fails the target IP filter and no other.
WrongTargetIPOnly(b) ==
    /\ PassesFrameFilters(b)
    /\ WireWellFormedARP(WirePayload(b))
    /\ WireOperation(WirePayload(b)) = OperationReply
    /\ WireTargetHW(WirePayload(b)) = ifiHardwareAddr
    /\ WireTargetIP(WirePayload(b)) # clientIP

\* C2: a reply with the wrong target IP leaves Request waiting; if a matching
\* reply follows, Request returns the matching reply's sender; if
\* end-of-stream follows, Request fails with end-of-stream.
C2_WrongTargetIPIgnored ==
    (creads # <<>> /\ creads[1].err = "nil" /\ WrongTargetIPOnly(creads[1].b))
    =>  /\ Len(creads) = 1 => cpc = "recv" /\ cret = NoReturn
        /\ (Len(creads) = 2 /\ creads[2].err = "nil"
                /\ PassesAllFilters(creads[2].b))
           => /\ cpc = "done"
              /\ cret = [hw |-> WireSenderHW(WirePayload(creads[2].b)),
                         err |-> "nil"]
        /\ (Len(creads) = 2 /\ creads[2].err = "EOF") => Failed("EOF")

\* The wrong reply came from one sender, the matching reply from another.
C2_Witness ==
    /\ Len(creads) = 2
    /\ creads[1].err = "nil"
    /\ WrongTargetIPOnly(creads[1].b)
    /\ creads[2].err = "nil"
    /\ PassesAllFilters(creads[2].b)
    /\ WireSenderHW(WirePayload(creads[1].b))
          # WireSenderHW(WirePayload(creads[2].b))
    /\ cpc = "done"

\* The datagram b is an ARP frame for the local interface whose packet is
\* well formed and is not a Reply.
NotAReply(b) ==
    /\ PassesFrameFilters(b)
    /\ WireWellFormedARP(WirePayload(b))
    /\ WireOperation(WirePayload(b)) # OperationReply

\* C3: a packet that is not a Reply is never what Request returns on: the
\* loop keeps waiting after it, and fails with end-of-stream if that is all
\* that follows.
C3_NonReplySkipped ==
    \A i \in 1..Len(creads) :
        (creads[i].err = "nil" /\ NotAReply(creads[i].b)) =>
            /\ i = Len(creads) => cpc = "recv" /\ cret = NoReturn
            /\ (i + 1 = Len(creads) /\ creads[i + 1].err = "EOF")
                  => Failed("EOF")

\* An ARP Request addressed to the local hardware and IP address, then
\* end-of-stream.
C3_Witness ==
    /\ Len(creads) = 2
    /\ creads[1].err = "nil"
    /\ NotAReply(creads[1].b)
    /\ WireTargetIP(WirePayload(creads[1].b)) = clientIP
    /\ WireTargetHW(WirePayload(creads[1].b)) = ifiHardwareAddr
    /\ creads[2].err = "EOF"
    /\ cpc = "done"

\* The frame b is well formed and fails a frame-level filter.
NotForUs(b) ==
    /\ WireWellFormedFrame(b)
    /\ \/ WireEtherType(b) # EtherTypeARP
       \/ WireDestination(b) # ifiHardwareAddr

\* C4: a well-formed frame with another EtherType or another destination is
\* skipped whatever its payload: after it Request is still waiting and has
\* returned neither an address nor an error.
C4_ForeignFrameSkipped ==
    (creads # <<>> /\ Last(creads).err = "nil" /\ NotForUs(Last(creads).b))
    => cpc = "recv" /\ cret = NoReturn

\* Such a frame whose payload does not decode as an ARP packet was skipped.
C4_Witness ==
    /\ creads # <<>>
    /\ Last(creads).err = "nil"
    /\ NotForUs(Last(creads).b)
    /\ ~WireWellFormedARP(WirePayload(Last(creads).b))
    /\ cpc = "recv"

\* C5: an error of ReadFrom ends the call: Request returns that error and no
\* hardware address, and end-of-stream is an error like any other.
C5_ReadErrorPropagates ==
    \A i \in 1..Len(creads) :
        creads[i].err # "nil" => i = Len(creads) /\ Failed(creads[i].err)

\* End-of-stream arrived after a frame that was skipped.
C5_Witness ==
    /\ Len(creads) = 2
    /\ creads[2].err = "EOF"
    /\ Failed("EOF")

\* C6: a datagram that is not a frame, or an ARP frame for the local
\* interface whose payload is truncated, ends the call with the decode
\* error, io.ErrUnexpectedEOF.
C6_DecodeErrorAborts ==
    \A i \in 1..Len(creads) :
        (/\ creads[i].err = "nil"
         /\ \/ ~WireWellFormedFrame(creads[i].b)
            \/ /\ PassesFrameFilters(creads[i].b)
               /\ ~WireWellFormedARP(WirePayload(creads[i].b)))
        => i = Len(creads) /\ Failed("ErrUnexpectedEOF")

\* A truncated ARP payload in a frame that passed the frame filters.
C6_Witness ==
    /\ creads # <<>>
    /\ Last(creads).err = "nil"
    /\ PassesFrameFilters(Last(creads).b)
    /\ ~WireWellFormedARP(WirePayload(Last(creads).b))
    /\ Failed("ErrUnexpectedEOF")

\* C7: when WriteTo fails, Request returns its error and never calls
\* ReadFrom.
C7_WriteErrorPropagates ==
    \A i \in 1..Len(cwrites) :
        cwrites[i].err # "nil" => Failed(cwrites[i].err) /\ creads = <<>>

C7_Witness ==
    /\ Len(cwrites) = 1
    /\ cwrites[1].err = "ErrIO"
    /\ Failed("ErrIO")

\* C8: when the request packet cannot be built, Request returns
\* ErrInvalidMAC for an invalid local hardware address, else ErrInvalidIP
\* for an address that is not IPv4, and calls neither WriteTo nor ReadFrom.
C8_ConstructionErrorBeforeIO ==
    (cpc # "idle" /\ ~ConstructionSucceeds) =>
        /\ cwrites = <<>>
        /\ creads = <<>>
        /\ Len(ifiHardwareAddr) # 6 => Failed("ErrInvalidMAC")
        /\ Len(ifiHardwareAddr) = 6 => Failed("ErrInvalidIP")

\* Request was called for an IPv6 address on a valid interface.
C8_Witness ==
    /\ cpc = "done"
    /\ Len(ifiHardwareAddr) = 6
    /\ IsIPv4(clientIP)
    /\ reqIP = IPv6Loopback
    /\ cret.err = "ErrInvalidIP"

\* C9 as stated: every call of Request performs exactly one WriteTo, to the
\* broadcast address, before any ReadFrom.
C9_ExactlyOneSendPerCall ==
    cpc # "idle" =>
        /\ Len(cwrites) = 1
        /\ cwrites[1].addr = Broadcast
        /\ WireDestination(cwrites[1].b) = Broadcast

\* C9, amended: a call whose request packet is built performs exactly one
\* WriteTo, of a frame addressed to the broadcast address and written to the
\* broadcast address; a call whose packet cannot be built performs none;
\* every ReadFrom of the call comes after the successful WriteTo, and no
\* number of received frames makes for a second one.
C9_OneSendWhenConstructed ==
    /\ cpc = "idle" => cwrites = <<>> /\ creads = <<>>
    /\ (cpc # "idle" /\ ConstructionSucceeds) =>
          /\ Len(cwrites) = 1
          /\ cwrites[1].addr = Broadcast
          /\ WireDestination(cwrites[1].b) = Broadcast
    /\ (cpc # "idle" /\ ~ConstructionSucceeds) => cwrites = <<>>
    /\ creads # <<>> => Len(cwrites) = 1 /\ cwrites[1].err = "nil"

\* Frames that do not match were received up to the bound, after one send.
C9_Witness ==
    /\ cpc = "recv"
    /\ Len(creads) = MaxRecv
    /\ Len(cwrites) = 1

(***************************************************************************)
(* Server.Serve                                                            *)
(***************************************************************************)

\* C10: Serve returns only when ReadFrom fails, and then at once: it returns
\* nil when the error is end-of-stream and the error itself otherwise.
C10_ServeReturnsOnReadError ==
    /\ spc = "returned" =>
          /\ sreads # <<>>
          /\ Last(sreads).err # "nil"
          /\ Last(sreads).err = "EOF" => sret = "nil"
          /\ Last(sreads).err # "EOF" => sret = Last(sreads).err
    /\ spc # "returned" => sret = "none"
    /\ \A i \in 1..Len(sreads) :
          sreads[i].err # "nil" => i = Len(sreads) /\ spc = "returned"

\* Serve returned nil on end-of-stream after it had served datagrams.
C10_Witness ==
    /\ spc = "returned"
    /\ Len(sreads) > 1
    /\ Last(sreads).err = "EOF"
    /\ sret = "nil"

(***************************************************************************)
(* Server: datagrams that are no ARP request                               *)
(***************************************************************************)
\* The bytes are an Ethernet II frame of EtherType ARP whose payload holds a
\* whole ARP packet.
WireDecodableARP(b) ==
    /\ WireWellFormedFrame(b)
    /\ WireEtherType(b) = EtherTypeARP
    /\ WireWellFormedARP(WirePayload(b))

\* The datagram read number i, as far as the buffer of Serve holds it.
Received(i) == SubSeq(sreads[i].b, 1, Min(Len(sreads[i].b), BufSize))

\* C11: a datagram that is no decodable ARP frame neither stops Serve nor
\* changes what it returns: Serve leaves its loop only on a failed receive
\* (or a peer address of a foreign type), its result is a function of the
\* receive error alone, every datagram received got its goroutine, and a
\* crash of the process is never due to an undecodable datagram.
C11_DatagramFailureIsLocal ==
    /\ spc = "serving" =>
          /\ sret = "none"
          /\ ~closed
          /\ Len(conns) = Len(sreads)
          /\ \A i \in 1..Len(sreads) : sreads[i].err = "nil"
    /\ spc = "returned" =>
          /\ Last(sreads).err # "nil"
          /\ sret = (IF Last(sreads).err = "EOF" THEN "nil"
                     ELSE Last(sreads).err)
          /\ Len(conns) = Len(sreads) - 1
    /\ spc = "panic" => ~Last(sreads).addr.raw
    /\ \A i \in 1..Len(conns) :
          /\ conns[i].buf = Received(i)
          /\ ~WireDecodableARP(Received(i)) => conns[i].pc # "panic"
    /\ crashed =>
          \/ spc = "panic"
          \/ \E i \in 1..Len(conns) :
                conns[i].pc = "panic" /\ WireDecodableARP(Received(i))

\* An undecodable datagram was received and dropped, the request after it
\* reached its handler, and Serve returned nil at the end of the stream.
C11_Witness ==
    /\ Len(conns) = 2
    /\ ~WireDecodableARP(Received(1))
    /\ conns[1].pc = "done"
    /\ WireDecodableARP(Received(2))
    /\ conns[2].pc = "handler"
    /\ spc = "returned"
    /\ sret = "nil"

\* C12: for a datagram that is no decodable ARP frame no handler is invoked
\* and nothing is written to the transport; when one such datagram is all
\* the transport delivers before the end of the stream, Serve returns nil.
C12_UndecodableDatagramIgnored ==
    /\ \A i \in 1..Len(conns) :
          ~WireDecodableARP(Received(i)) =>
             /\ conns[i].pc \in {"start", "done"}
             /\ conns[i].r = NoRequest
             /\ conns[i].sends = 0
             /\ \A k \in 1..Len(swrites) : swrites[k].conn # i
    /\ (/\ Len(sreads) = 2
        /\ sreads[1].err = "nil"
        /\ ~WireDecodableARP(Received(1))
        /\ sreads[2].err = "EOF") =>
          /\ spc = "returned"
          /\ sret = "nil"
          /\ swrites = <<>>
          /\ ~crashed

\* A Server with a Handler was given a frame of another EtherType and then
\* the end of the stream: the goroutine of the frame is over, no handler
\* ran, nothing was written and Serve returned nil.
C12_Witness ==
    /\ sHandler = "func"
    /\ Len(sreads) = 2
    /\ WireWellFormedFrame(Received(1))
    /\ WireEtherType(Received(1)) # EtherTypeARP
    /\ sreads[2].err = "EOF"
    /\ conns[1].pc = "done"
    /\ swrites = <<>>
    /\ sret = "nil"

(***************************************************************************)
(* ResponseSender.Send                                                     *)
(***************************************************************************)
WireSource(b) == SubSeq(b, 7, 12)
WireSenderIP(a) == SubSeq(a, 9 + a[5], 8 + a[5] + a[6])

\* The writes to the transport made for the datagram number i.
WritesOf(i) == {k \in 1..Len(swrites) : swrites[k].conn = i}

\* The packet is the reply to the ARP packet req with sender and target
\* exchanged.
SwapsSenderAndTarget(p, req) ==
    /\ p.Operation = OperationReply
    /\ p.SenderMAC = WireTargetHW(req)
    /\ p.SenderIP = WireTargetIP(req)
    /\ p.TargetMAC = WireSenderHW(req)
    /\ p.TargetIP = WireSenderIP(req)

\* C13: every Send(p) is one write, to the peer address of the datagram the
\* sender belongs to, of a frame from p's sender hardware address to p's
\* target hardware address, of EtherType ARP, whose payload is p on the
\* wire; so the frame of a reply that exchanges sender and target of the
\* request goes to the sender hardware address of the request and carries
\* the target of the request as its sender.
C13_SendWritesOneFrame ==
    /\ \A i \in 1..Len(conns) : Cardinality(WritesOf(i)) = conns[i].sends
    /\ \A k \in 1..Len(swrites) :
          LET w == swrites[k]
              req == WirePayload(Received(w.conn))
              sent == WirePayload(w.b)
              marshalled == WireARP(w.p.Operation, w.p.SenderMAC, w.p.SenderIP,
                                    w.p.TargetMAC, w.p.TargetIP)
          IN  /\ w.addr = sreads[w.conn].addr
              /\ WireDestination(w.b) = w.p.TargetMAC
              /\ WireSource(w.b) = w.p.SenderMAC
              /\ WireEtherType(w.b) = EtherTypeARP
              /\ SubSeq(sent, 1, Len(marshalled)) = marshalled
              /\ \A j \in Len(marshalled) + 1..Len(sent) : sent[j] = 0
              /\ SwapsSenderAndTarget(w.p, req) =>
                    /\ WireDestination(w.b) = WireSenderHW(req)
                    /\ WireSenderHW(sent) = WireTargetHW(req)
                    /\ WireSenderIP(sent) = WireTargetIP(req)

\* The handler of the request of PeerA sent the reply that exchanges sender
\* and target, and the transport took the frame.
C13_Witness ==
    /\ Len(swrites) = 1
    /\ swrites[1].err = "nil"
    /\ swrites[1].addr = RawAddr(PeerA)
    /\ SwapsSenderAndTarget(swrites[1].p, WirePayload(Received(1)))
    /\ WireDestination(swrites[1].b) = PeerA
    /\ WireSource(swrites[1].b) = LocalHW

(***************************************************************************)
(* Server: handlers run beside the receive loop                            *)
(***************************************************************************)
\* C14: while a handler has not returned, Serve can still receive the next
\* datagram and start its goroutine, the goroutines of datagrams received
\* after it still get to their handler, and Serve can still return at the
\* end of the stream.
C14_HandlerDoesNotBlockServe ==
    \A i \in 1..Len(conns) :
       (conns[i].pc = "handler" /\ ~crashed) =>
          /\ (spc = "serving" /\ Len(sreads) < MaxServe) =>
                ENABLED (ServeLoop /\ Len(conns') = Len(conns) + 1)
          /\ spc = "serving" =>
                ENABLED (ServeLoop /\ spc' = "returned" /\ sret' = "nil")
          /\ \A j \in i + 1..Len(conns) :
                (conns[j].pc = "start" /\ WireDecodableARP(Received(j))) =>
                   ENABLED (ConnServe(j) /\ conns'[j].pc = "handler")

\* The handler of the first datagram has not returned; the second datagram
\* was received after it, its handler was invoked too, and Serve returned
\* at the end of the stream.
C14_Witness ==
    /\ Len(conns) = 2
    /\ conns[1].pc = "handler"
    /\ conns[2].pc = "handler"
    /\ spc = "returned"
    /\ sret = "nil"

\* C15: with a nil Handler every well-formed request is handled by the
\* default mux, so its goroutine never fails: no conn panics.
C15_NilHandlerUsesDefaultMux ==
    sHandler = "nil" =>
       /\ ~(crashed /\ spc # "panic")
       /\ \A i \in 1..Len(conns) : conns[i].pc # "panic"

(***************************************************************************)
(* ServeMux                                                                *)
(***************************************************************************)
\* The handler invocations made for the ServeARP call whose sender is w.
CallsFor(w) == {k \in 1..Len(muxCalls) : muxCalls[k].w = w}

\* The goroutine is in ServeARP and past the lookup of its handler.
Dispatched(t) == muxTask[t].pc \in {"running", "runlock"}

\* C16: a ServeARP call invokes the handler registered for the operation
\* of its request, once, with the sender and the request it was given, and
\* invokes nothing when the table has no handler for that operation;
\* before its lookup it has invoked nothing.
C16_DispatchesRegisteredHandler ==
    \A t \in MuxTasks :
       LET op == muxTask[t].r.Operation
       IN  /\ muxTask[t].pc \in {"rlock", "lookup"} =>
                CallsFor(muxTask[t].w) = {}
           /\ (Dispatched(t) /\ op \notin DOMAIN muxM) =>
                CallsFor(muxTask[t].w) = {}
           /\ (Dispatched(t) /\ op \in DOMAIN muxM) =>
                \E k \in 1..Len(muxCalls) :
                   /\ CallsFor(muxTask[t].w) = {k}
                   /\ muxCalls[k] = [h |-> muxM[op], w |-> muxTask[t].w,
                                     r |-> muxTask[t].r, task |-> t]

\* On a mux whose only handler is registered for Reply, a dispatch of a
\* Request has invoked nothing while a dispatch of a Reply runs the
\* handler.
C16_Witness ==
    /\ DOMAIN muxM = {OperationReply}
    /\ \E t, u \in MuxTasks :
          /\ muxTask[t].pc = "runlock"
          /\ muxTask[t].r.Operation = OperationRequest
          /\ CallsFor(muxTask[t].w) = {}
          /\ muxTask[u].pc = "running"
          /\ muxTask[u].r.Operation = OperationReply
          /\ Len(muxCalls) = 1
          /\ muxCalls[1].h = muxM[OperationReply]
          /\ muxCalls[1].w = muxTask[u].w

\* The Handle calls made so far for the operation, by their place in the
\* order of the table writes, and the handler of the last of them.
HandlesOf(op) == {k \in 1..Len(muxHandles) : muxHandles[k].op = op}
LastHandled(op) ==
    muxHandles[CHOOSE k \in HandlesOf(op) :
                  \A j \in HandlesOf(op) : j <= k].h

\* The table holds the same for the operation before and after the step.
SameEntry(op) ==
    /\ op \in DOMAIN muxM' <=> op \in DOMAIN muxM
    /\ op \in DOMAIN muxM => muxM'[op] = muxM[op]

\* C17: the table holds, for each operation, the handler of the most recent
\* Handle call for it (and nothing for an operation never handled), and
\* that is the handler a dispatch runs; the write of Handle(op, h) leaves
\* the entries of the other operations as they were, and no step of
\* ServeARP changes the table.
C17_LastHandleWins ==
    /\ [](/\ DOMAIN muxM = {op \in MuxOperations : HandlesOf(op) # {}}
          /\ \A op \in DOMAIN muxM : muxM[op] = LastHandled(op)
          /\ \A t \in MuxTasks :
                muxTask[t].pc = "running" =>
                   /\ HandlesOf(muxTask[t].r.Operation) # {}
                   /\ muxTask[t].h = LastHandled(muxTask[t].r.Operation))
    /\ [][\A t \in MuxTasks :
             /\ (muxTask[t].pc = "write" /\ muxTask'[t].pc = "unlock") =>
                   /\ muxTask[t].op \in DOMAIN muxM'
                   /\ muxM'[muxTask[t].op] = muxTask[t].h
                   /\ \A op \in MuxOperations \ {muxTask[t].op} :
                         SameEntry(op)
             /\ (/\ muxTask[t].pc \in {"rlock", "lookup", "running",
                                        "runlock"}
                 /\ muxTask'[t] # muxTask[t]) => muxM' = muxM]_vars

\* Two Handle calls for one operation gave different handlers, and a
\* dispatch of that operation runs the handler of the later call.
C17_Witness ==
    /\ Len(muxHandles) = 2
    /\ muxHandles[1].op = muxHandles[2].op
    /\ muxHandles[1].h # muxHandles[2].h
    /\ \E t \in MuxTasks :
          /\ muxTask[t].pc = "running"
          /\ muxTask[t].r.Operation = muxHandles[2].op
          /\ muxTask[t].h = muxHandles[2].h

\* The goroutines between Lock and Unlock, and those between RLock and
\* RUnlock.
MuxWriters == {t \in MuxTasks : muxTask[t].pc \in {"write", "unlock"}}
MuxReaders ==
    {t \in MuxTasks :
        \/ muxTask[t].pc \in {"lookup", "running", "runlock"}
        \/ muxTask[t].caller # "nil"}

\* C18: at no time is a goroutine between Lock and Unlock while another is
\* between Lock and Unlock or between RLock and RUnlock; so a dispatch never
\* reads an entry that is being written: the handler it runs is one that a
\* Handle call registered for its operation.
C18_WritesExcludeLookups ==
    /\ Cardinality(MuxWriters) <= 1
    /\ MuxWriters # {} => MuxReaders = {}
    /\ MuxWriters = {} \/ MuxWriters = {muxMu.writer}
    /\ MuxReaders = muxMu.readers
    /\ \A k \in 1..Len(muxCalls) :
          \E j \in HandlesOf(muxCalls[k].r.Operation) :
             muxHandles[j].h = muxCalls[k].h

\* After a Handle call has registered a handler, two dispatches hold the
\* read lock together and both run it.
C18_Witness ==
    /\ Len(muxHandles) = 1
    /\ Cardinality(MuxReaders) = 2
    /\ \A t \in MuxReaders : muxTask[t].pc = "running"

(***************************************************************************)
(* The packet codec                                                        *)
(***************************************************************************)
\* The four address fields have the lengths the length fields declare, and
\* the protocol addresses are IPv4 addresses of 4 bytes.
ValidPacket(p) ==
    /\ Len(p.SenderMAC) = p.MACLength
    /\ Len(p.TargetMAC) = p.MACLength
    /\ Len(p.SenderIP) = p.IPLength
    /\ Len(p.TargetIP) = p.IPLength
    /\ p.IPLength = 4

\* C19: for a valid Packet with hardware addresses of 6 or of 20 bytes,
\* MarshalBinary succeeds, UnmarshalBinary of its bytes succeeds, and the
\* Packet that comes back equals the one marshalled in every field.
C19_RoundTrip ==
    (/\ codecPc \in {"marshalled", "unmarshalled"}
     /\ ValidPacket(codecPkt.p)
     /\ codecPkt.p.MACLength \in {6, 20}) =>
       /\ codecBytes.err = "nil"
       /\ codecPc = "unmarshalled" =>
             /\ codecBack.err = "nil"
             /\ codecBack.p.HardwareType = codecPkt.p.HardwareType
             /\ codecBack.p.ProtocolType = codecPkt.p.ProtocolType
             /\ codecBack.p.MACLength = codecPkt.p.MACLength
             /\ codecBack.p.IPLength = codecPkt.p.IPLength
             /\ codecBack.p.Operation = codecPkt.p.Operation
             /\ codecBack.p.SenderMAC = codecPkt.p.SenderMAC
             /\ codecBack.p.SenderIP = codecPkt.p.SenderIP
             /\ codecBack.p.TargetMAC = codecPkt.p.TargetMAC
             /\ codecBack.p.TargetIP = codecPkt.p.TargetIP

\* A Packet with two different 20-byte hardware addresses went through
\* MarshalBinary and UnmarshalBinary.
C19_Witness ==
    /\ codecPc = "unmarshalled"
    /\ ValidPacket(codecPkt.p)
    /\ codecPkt.p.MACLength = 20
    /\ codecPkt.p.SenderMAC # codecPkt.p.TargetMAC
    /\ codecPkt.p.SenderIP # codecPkt.p.TargetIP
    /\ codecBack.p = codecPkt.p

\* The address is no IPv4 address: neither 4 bytes nor the 16-byte form of
\* an IPv4 address.
NonIPv4(ip) == ~IsIPv4(ip)

\* NewPacket has returned for the arguments.
Built == codecArgs # NoArgs /\ codecPc # "args"

\* Both hardware addresses pass the checks of NewPacket.
HardwareAddrsAccepted ==
    /\ Len(codecArgs.srcMAC) >= 6
    /\ Len(codecArgs.srcMAC) = Len(codecArgs.dstMAC)

IPsAccepted == IsIPv4(codecArgs.srcIP) /\ IsIPv4(codecArgs.dstIP)

\* The four bytes of an IPv4 address given in either form.
IPv4Bytes(ip) == IF Len(ip) = 4 THEN ip ELSE SubSeq(ip, 13, 16)

\* C21: NewPacket takes a 20-byte sender hardware address together with
\* the 6-byte broadcast address as the target and IPv4 addresses: it
\* returns, without error, a Packet of hardware address length 20 with that
\* sender address and the broadcast target address.
C21_BroadcastTargetAccepted ==
    (/\ Built
     /\ Len(codecArgs.srcMAC) = 20
     /\ codecArgs.dstMAC = Broadcast
     /\ IPsAccepted) =>
       /\ codecPkt.err = "nil"
       /\ codecPkt.p.MACLength = 20
       /\ codecPkt.p.SenderMAC = codecArgs.srcMAC
       /\ codecPkt.p.TargetMAC = Broadcast

\* C22: NewPacket fails with the invalid hardware address error whenever
\* one of the two hardware addresses is shorter than 6 bytes, whatever the
\* other arguments are.
C22_ShortHardwareAddrRejected ==
    (Built /\ (Len(codecArgs.srcMAC) < 6 \/ Len(codecArgs.dstMAC) < 6)) =>
       codecPkt = [err |-> "ErrInvalidMAC", p |-> NoPacket]

\* NewPacket refused two hardware addresses of 5 bytes each, given with
\* IPv4 addresses.
C22_Witness ==
    /\ Built
    /\ Len(codecArgs.srcMAC) = 5
    /\ Len(codecArgs.dstMAC) = 5
    /\ IPsAccepted
    /\ codecPkt = [err |-> "ErrInvalidMAC", p |-> NoPacket]

\* C23, as the claim states it: NewPacket succeeds for hardware addresses
\* of any positive length that are equally long, given IPv4 addresses, and
\* refuses hardware addresses only when one is empty or the lengths differ.
C23_AnyPositiveLengthAccepted ==
    Built =>
       /\ (/\ Len(codecArgs.srcMAC) > 0
           /\ Len(codecArgs.srcMAC) = Len(codecArgs.dstMAC)
           /\ IPsAccepted) => codecPkt.err = "nil"
       /\ codecPkt.err = "ErrInvalidMAC" =>
             \/ Len(codecArgs.srcMAC) = 0
             \/ Len(codecArgs.dstMAC) = 0
             \/ Len(codecArgs.srcMAC) # Len(codecArgs.dstMAC)

\* C23, amended: NewPacket succeeds for hardware addresses of 6 bytes or
\* more that are equally long, given IPv4 addresses, and refuses hardware
\* addresses only when one is shorter than 6 bytes or the lengths differ.
C23_SixOrMoreAccepted ==
    Built =>
       /\ (/\ Len(codecArgs.srcMAC) >= 6
           /\ Len(codecArgs.srcMAC) = Len(codecArgs.dstMAC)
           /\ IPsAccepted) => codecPkt.err = "nil"
       /\ codecPkt.err = "ErrInvalidMAC" =>
             \/ Len(codecArgs.srcMAC) < 6
             \/ Len(codecArgs.dstMAC) < 6
             \/ Len(codecArgs.srcMAC) # Len(codecArgs.dstMAC)

\* NewPacket built a Packet for two hardware addresses of 6 bytes.
C23_Witness ==
    /\ Built
    /\ Len(codecArgs.srcMAC) = 6
    /\ Len(codecArgs.dstMAC) = 6
    /\ codecArgs.srcMAC # codecArgs.dstMAC
    /\ codecPkt.err = "nil"

\* The buffer is shorter than its header, or than the header and the four
\* addresses of the lengths the header declares at offsets 4 and 5.
WireTruncated(b) == Len(b) < 8 \/ Len(b) < 8 + 2 * b[5] + 2 * b[6]

\* C24: UnmarshalBinary fails with io.ErrUnexpectedEOF on every buffer
\* shorter than 8 bytes and on every buffer shorter than the lengths it
\* declares ask for, and with nothing else; when it succeeds the buffer
\* holds all it has read: each address has its declared length.
C24_TruncatedInputRejected ==
    codecPc = "unmarshalled" =>
       /\ WireTruncated(codecBytes.b) =>
             codecBack = [err |-> "ErrUnexpectedEOF", p |-> NoPacket]
       /\ codecBack.err \in {"nil", "ErrUnexpectedEOF"}
       /\ codecBack.err = "nil" =>
             /\ ~WireTruncated(codecBytes.b)
             /\ Len(codecBack.p.SenderMAC) = codecBytes.b[5]
             /\ Len(codecBack.p.TargetMAC) = codecBytes.b[5]
             /\ Len(codecBack.p.SenderIP) = codecBytes.b[6]
             /\ Len(codecBack.p.TargetIP) = codecBytes.b[6]

\* UnmarshalBinary refused a buffer of 48 bytes whose header declares
\* addresses of 255 bytes.
C24_Witness ==
    /\ codecPc = "unmarshalled"
    /\ Len(codecBytes.b) = 48
    /\ codecBytes.b[5] = 255
    /\ codecBack = [err |-> "ErrUnexpectedEOF", p |-> NoPacket]

\* C25: MarshalBinary succeeds on every well-formed Packet and returns
\* 8 + 2 * (hardware address length) + 2 * (protocol address length)
\* bytes, whatever hardware address length the 8-bit field holds.
C25_MarshalLength ==
    (/\ codecPc \in {"marshalled", "unmarshalled"}
     /\ codecPkt.err = "nil"
     /\ ValidPacket(codecPkt.p)) =>
       /\ codecBytes.err = "nil"
       /\ Len(codecBytes.b) =
             8 + 2 * codecPkt.p.MACLength + 2 * codecPkt.p.IPLength

Parsed == parsePc = "done"

\* The Request that the ARP packet a of the wire projects to.
WireRequest(a) ==
    [Operation |-> WireOperation(a),
     SenderMAC |-> WireSenderHW(a),
     SenderIP |-> WireSenderIP(a),
     TargetMAC |-> WireTargetHW(a),
     TargetIP |-> WireTargetIP(a)]

\* C27: parseRequest applies its checks in a fixed order.  A buffer too
\* short for an Ethernet header fails with the error of the frame decoder;
\* otherwise a frame whose EtherType is not ARP fails with
\* errInvalidARPPacket whatever its payload is; otherwise a payload that is
\* no whole ARP packet fails with the error of the packet decoder;
\* otherwise the call succeeds and the Request carries the operation and
\* the four addresses of the packet on the wire.
C27_ChecksInFixedOrder ==
    Parsed =>
        IF ~WireWellFormedFrame(parseBuf)
        THEN parseRet = [err |-> FrameUnmarshalBinary(parseBuf).err,
                         r |-> NoRequest]
        ELSE IF WireEtherType(parseBuf) # EtherTypeARP
        THEN parseRet = [err |-> "errInvalidARPPacket", r |-> NoRequest]
        ELSE IF ~WireWellFormedARP(WirePayload(parseBuf))
        THEN parseRet = [err |-> UnmarshalBinary(WirePayload(parseBuf)).err,
                         r |-> NoRequest]
        ELSE parseRet = [err |-> "nil",
                         r |-> WireRequest(WirePayload(parseBuf))]

\* parseRequest has refused a frame whose EtherType is not ARP and whose
\* payload is no whole ARP packet either.
C27_Witness ==
    /\ Parsed
    /\ WireWellFormedFrame(parseBuf)
    /\ WireEtherType(parseBuf) # EtherTypeARP
    /\ ~WireWellFormedARP(WirePayload(parseBuf))
    /\ parseRet.err = "errInvalidARPPacket"

(***************************************************************************)
(* The address a Client is bound to.                                       *)
(***************************************************************************)
\* The mask of len bytes that is n one bits followed by zero bits.
PrefixMask(n, len) ==
    [i \in 1..len |->
        IF 8 * i <= n THEN 255
        ELSE IF 8 * (i - 1) >= n THEN 0
        ELSE 256 - 2 ^ (8 * i - n)]

\* The entry is an IP network that has a text form ParseCIDR accepts: the
\* mask is as long as the address, and is a prefix.
ParsableNet(a) ==
    LET len == IF IsIPv4(a.ip) THEN 4 ELSE 16
        m == IF len = 4 /\ Len(a.mask) = 16 THEN SubSeq(a.mask, 13, 16)
             ELSE a.mask
    IN  /\ a.network = "ip+net"
        /\ IsIPv4(a.ip) \/ Len(a.ip) = 16
        /\ Len(m) = len
        /\ \E n \in 0..(8 * len) : m = PrefixMask(n, len)

\* The entries the scan passes over: those that are no IP networks, and the
\* IPv6 networks.
Skipped(a) == a.network # "ip+net" \/ (ParsableNet(a) /\ ~IsIPv4(a.ip))

\* The positions of the entries the scan does not pass over.
Stops == {i \in 1..Len(ncAddrs) : ~Skipped(ncAddrs[i])}

FirstStop == CHOOSE i \in Stops : \A j \in Stops : i <= j

\* newClient has returned.
Constructed == ncPc \in {"ready", "failed"}

\* C28: newClient binds the Client to the first IPv4 address of the address
\* list, in the order of the list, passing over the entries that are no IP
\* networks and the IPv6 networks; it fails with errNoIPv4Addr when every
\* entry is passed over, and with the parse error when the first entry not
\* passed over is an IP network that cannot be parsed, whatever follows it.
C28_FirstIPv4AddrBound ==
    Constructed =>
        IF Stops = {}
        THEN /\ ncPc = "failed"
             /\ ncRet = [err |-> "errNoIPv4Addr", ip |-> <<>>]
        ELSE IF ~ParsableNet(ncAddrs[FirstStop])
        THEN /\ ncPc = "failed"
             /\ ncRet = [err |-> "ParseError", ip |-> <<>>]
        ELSE /\ ncPc = "ready"
             /\ ncRet.err = "nil"
             /\ ncIP = IPv4Bytes(ncAddrs[FirstStop].ip)

\* newClient has failed with the parse error on a list in which a valid IPv4
\* network follows the entry that cannot be parsed, and an IPv6 network
\* comes before it.
C28_Witness ==
    /\ Constructed
    /\ ncRet.err = "ParseError"
    /\ \E i, j, k \in 1..Len(ncAddrs) :
          /\ i < j
          /\ j < k
          /\ Skipped(ncAddrs[i])
          /\ ~ParsableNet(ncAddrs[j])
          /\ ParsableNet(ncAddrs[k])
          /\ IsIPv4(ncAddrs[k].ip)

(***************************************************************************)
(* The deadlines and the closing of the transport of a Client.             *)
(***************************************************************************)
\* The step is a call of the method op of the Client with the deadline t.
Called(op, t) == lastCall' = [op |-> op, t |-> t] /\ vars' # vars

\* C29: SetReadDeadline(t) sets the read deadline of the transport to t and
\* leaves its write deadline as it was; SetWriteDeadline(t) sets the write
\* deadline to t and leaves the read deadline as it was; SetDeadline(t) sets
\* both to t; Close closes the transport.
C29_DeadlinesAndClose ==
    [][\A t \in Deadlines :
          /\ Called("SetReadDeadline", t) =>
                /\ pReadDeadline' = t
                /\ pWriteDeadline' = pWriteDeadline
          /\ Called("SetWriteDeadline", t) =>
                /\ pWriteDeadline' = t
                /\ pReadDeadline' = pReadDeadline
          /\ Called("SetDeadline", t) =>
                /\ pReadDeadline' = t
                /\ pWriteDeadline' = t
          /\ Called("Close", t) => pClosed']_vars

\* SetReadDeadline has just set a read deadline on a transport that is
\* closed and that has another write deadline, set before.
C29_Witness ==
    /\ lastCall.op = "SetReadDeadline"
    /\ pClosed
    /\ pReadDeadline # ZeroTime
    /\ pWriteDeadline # ZeroTime
    /\ pReadDeadline # pWriteDeadline

(***************************************************************************)
(* One handler invocation for every ARP datagram.                          *)
(***************************************************************************)
\* conn.serve of conn i has got to the end of its work on the datagram: it
\* has returned, has panicked, or is in the handler.
Served(i) == conns[i].pc # "start"

\* The handler has been invoked for conn i: the conn holds the Request it
\* was invoked with.
Invoked(i) == conns[i].r # NoRequest

\* C30: for every datagram Serve has received that decodes as an ARP frame,
\* the Handler is invoked once by the goroutine of the datagram, with the
\* Request that is the projection of the ARP packet of the datagram and
\* with a ResponseSender bound to the address the datagram came from; and
\* there are never more invocations than datagrams received.
C30_HandlerInvokedOncePerDatagram ==
    /\ \A i \in 1..Len(conns) :
          WireDecodableARP(Received(i)) /\ Served(i) =>
              /\ Invoked(i)
              /\ conns[i].r = WireRequest(WirePayload(Received(i)))
              /\ conns[i].remoteAddr = sreads[i].addr
    /\ Cardinality({i \in 1..Len(conns) : Invoked(i)})
          <= Cardinality({k \in 1..Len(sreads) : sreads[k].err = "nil"})

(***************************************************************************)
(* Every conn works on its own copy of its datagram.                       *)
(***************************************************************************)
\* C31: whatever Serve reads into its buffer after it has started the
\* goroutine of a datagram, the conn of the datagram holds the bytes of its
\* own datagram, of the length received, and the peer address of its own
\* datagram; the Request its handler gets is the projection of those bytes.
C31_ConnOwnsItsDatagram ==
    \A i \in 1..Len(conns) :
       /\ conns[i].buf = Received(i)
       /\ conns[i].remoteAddr = sreads[i].addr
       /\ Invoked(i) =>
             /\ WireDecodableARP(Received(i))
             /\ conns[i].r = WireRequest(WirePayload(Received(i)))

\* The handler of the first datagram, a request of PeerA, was invoked after
\* Serve had read a second datagram, from PeerB and with other bytes, into
\* its buffer.
C31_Witness ==
    /\ Len(conns) = 2
    /\ Invoked(1)
    /\ conns[1].pc = "handler"
    /\ conns[1].remoteAddr = RawAddr(PeerA)
    /\ conns[2].remoteAddr = RawAddr(PeerB)
    /\ Invoked(2)
    /\ conns[1].r # conns[2].r
    /\ Slice(sbuf, 0, Len(conns[1].buf)) # conns[1].buf

(***************************************************************************)
(* The writes of the server.                                               *)
(***************************************************************************)
\* The last write to the transport made for the datagram number i.
LastWriteOf(i) == CHOOSE k \in WritesOf(i) : \A j \in WritesOf(i) : j <= k

\* C32: the server writes to the transport in Send only.  Every write
\* belongs to the Send of a handler that was invoked; a conn whose handler
\* made no Send has no write, and a conn whose handler made several has one
\* write for each, also when a write failed; and what Send returned last is
\* the byte count and the error of its write.
C32_WritesOnlyInSend ==
    /\ \A k \in 1..Len(swrites) :
          /\ swrites[k].conn \in 1..Len(conns)
          /\ Invoked(swrites[k].conn)
    /\ \A i \in 1..Len(conns) :
          /\ Cardinality(WritesOf(i)) = conns[i].sends
          /\ conns[i].sends = 0 => conns[i].ret = NoSendReturn
          /\ conns[i].sends > 0 =>
                conns[i].ret = [n |-> swrites[LastWriteOf(i)].n,
                                err |-> swrites[LastWriteOf(i)].err]

\* The handler of the first datagram called Send twice: the first write
\* failed, the second one was taken whole; the handler of the second
\* datagram returned without a Send.
C32_Witness ==
    /\ Len(conns) = 2
    /\ conns[1].sends = 2
    /\ swrites[1].err = "ErrIO"
    /\ swrites[2].err = "nil"
    /\ conns[1].ret = [n |-> Len(swrites[2].b), err |-> "nil"]
    /\ Invoked(2)
    /\ conns[2].pc = "done"
    /\ conns[2].sends = 0

(***************************************************************************)
(* Serve returns and closes the transport beside running handlers.         *)
(***************************************************************************)
\* C33: when Serve ends, the transport is closed; and the return of Serve
\* waits for no goroutine it started: as long as Serve is in its loop, an
\* error of ReadFrom makes it return and close the transport, whatever the
\* conns are doing.
C33_ServeClosesWithoutWaiting ==
    /\ spc \in {"returned", "panic"} => closed
    /\ (spc = "serving" /\ ~crashed) =>
          ENABLED (ServeLoop /\ spc' = "returned" /\ closed' /\ conns' = conns)

\* Serve has returned and closed the transport; a handler invoked for a
\* datagram received before that is still running, and has called Send
\* on the closed transport.
C33_Witness ==
    /\ spc = "returned"
    /\ closed
    /\ \E i \in 1..Len(conns) :
          /\ conns[i].pc = "handler"
          /\ \E k \in WritesOf(i) : swrites[k].onClosed

(***************************************************************************)
(* The termination of Request.                                             *)
(***************************************************************************)
\* What ReadFrom returned ends the receive loop: an error of the transport,
\* bytes that are no frame, an ARP frame for the local interface whose
\* payload is no whole ARP packet, or a reply that passes all filters.
EndsRequest(ev) ==
    \/ ev.err # "nil"
    \/ ~WireWellFormedFrame(ev.b)
    \/ PassesFrameFilters(ev.b) /\ ~WireWellFormedARP(WirePayload(ev.b))
    \/ PassesAllFilters(ev.b)

InLock(t) == muxTask[t].pc \in {"lock", "lockwait"}

\* The handler that runs in the goroutine has called Handle.
HandlerInHandle(t) == muxTask[t].caller # "nil"

\* C35: while a handler dispatched by ServeARP runs, its goroutine holds the
\* read lock of the mux, so no Handle call on the mux is between the return
\* of Lock and Unlock; a handler that calls Handle on the mux that
\* dispatched it never gets the lock; and a Handle call does not wait for
\* the lock for ever unless a handler is blocked in Handle, and so never
\* returns.
C35_ReadLockHeldDuringHandler ==
    /\ [](\A t \in MuxTasks :
             /\ (muxTask[t].pc = "running" \/ HandlerInHandle(t)) =>
                   /\ t \in muxMu.readers
                   /\ \A u \in MuxTasks : muxTask[u].pc \notin {"write", "unlock"}
             /\ HandlerInHandle(t) => InLock(t))
    /\ \A t \in MuxTasks :
          []<>(~InLock(t) \/ \E u \in MuxTasks : HandlerInHandle(u))

\* A handler dispatched for a registered operation has called Handle and
\* waits in Lock, as the writer, for the read lock that its own goroutine
\* holds.
C35_Witness ==
    \E t \in MuxTasks :
       /\ HandlerInHandle(t)
       /\ muxTask[t].caller \in MuxHandlers
       /\ muxTask[t].pc = "lockwait"
       /\ muxMu.writer = t
       /\ t \in muxMu.readers

(***************************************************************************)
(* The order of the checks of NewPacket.                                   *)
(***************************************************************************)
\* The return statements of NewPacket for a hardware address that is not
\* accepted.
HardwareAddrReturns == {"srcMAC", "dstMAC", "length"}

\* C36: NewPacket checks the hardware addresses before the IP addresses, and
\* the sender IP address before the target IP address: arguments that break
\* a rule for the hardware addresses and a rule for the IP addresses get the
\* invalid hardware address error, from a check of the hardware addresses;
\* with hardware addresses that are accepted and a sender address that is
\* no IPv4 address it is the check of the sender IP address that returns
\* ErrInvalidIP, whatever the target IP address, and the check of the
\* target IP address returns it only when the sender IP address is an IPv4
\* address.
C36_HardwareBeforeIPSenderBeforeTarget ==
    Built =>
       /\ (~HardwareAddrsAccepted /\ ~IPsAccepted) =>
             /\ codecPkt = [err |-> "ErrInvalidMAC", p |-> NoPacket]
             /\ codecAt \in HardwareAddrReturns
       /\ (HardwareAddrsAccepted /\ NonIPv4(codecArgs.srcIP)) =>
             /\ codecPkt = [err |-> "ErrInvalidIP", p |-> NoPacket]
             /\ codecAt = "srcIP"
       /\ codecAt = "dstIP" =>
             /\ codecPkt = [err |-> "ErrInvalidIP", p |-> NoPacket]
             /\ HardwareAddrsAccepted
             /\ IsIPv4(codecArgs.srcIP)
             /\ NonIPv4(codecArgs.dstIP)

\* NewPacket returned the invalid hardware address error for hardware
\* addresses of different lengths and two addresses that are no IPv4
\* addresses.
C36_Witness ==
    /\ Built
    /\ Len(codecArgs.srcMAC) >= 6
    /\ Len(codecArgs.dstMAC) >= 6
    /\ Len(codecArgs.srcMAC) # Len(codecArgs.dstMAC)
    /\ NonIPv4(codecArgs.srcIP)
    /\ NonIPv4(codecArgs.dstIP)
    /\ codecPkt.err = "ErrInvalidMAC"
    /\ codecAt = "length"

(***************************************************************************)
(* The layout of the bytes of a Packet.                                    *)
(***************************************************************************)
\* The n bytes of b from offset off on.
Field(b, off, n) == [i \in 1..n |-> b[off + i]]

\* What copy leaves in a destination of n zero bytes.
Copied(n, src) == [i \in 1..n |-> IF i <= Len(src) THEN src[i] ELSE 0]

\* The two bytes of a 16-bit value, the most significant first.
BigEndian(v) == <<v \div 256, v % 256>>

\* MarshalBinary returned bytes for the Packet.
Marshalled ==
    /\ codecPc \in {"marshalled", "unmarshalled"}
    /\ codecPkt.err = "nil"
    /\ codecBytes.err = "nil"

\* UnmarshalBinary decoded the bytes.
Decoded == codecPc = "unmarshalled" /\ codecBack.err = "nil"

\* C37: the bytes MarshalBinary returns hold the hardware type at 0-1, the
\* protocol type at 2-3, the hardware length H at 4, the protocol length P
\* at 5 and the operation at 6-7, the 16-bit values big-endian, and from 8 on
\* H bytes of the sender hardware address, P of the sender IP address, H of
\* the target hardware address and P of the target IP address; the Packet
\* UnmarshalBinary decodes has each field from the same offsets of its
\* buffer, with H and P the bytes at 4 and 5.
C37_FixedLayout ==
    /\ Marshalled =>
          LET p == codecPkt.p
              b == codecBytes.b
              H == p.MACLength
              P == p.IPLength
          IN  /\ Len(b) >= 8 + 2 * H + 2 * P
              /\ Field(b, 0, 2) = BigEndian(p.HardwareType)
              /\ Field(b, 2, 2) = BigEndian(p.ProtocolType)
              /\ b[5] = H
              /\ b[6] = P
              /\ Field(b, 6, 2) = BigEndian(p.Operation)
              /\ Field(b, 8, H) = Copied(H, p.SenderMAC)
              /\ Field(b, 8 + H, P) = Copied(P, p.SenderIP)
              /\ Field(b, 8 + H + P, H) = Copied(H, p.TargetMAC)
              /\ Field(b, 8 + 2 * H + P, P) = Copied(P, p.TargetIP)
    /\ Decoded =>
          LET q == codecBack.p
              b == codecBytes.b
              H == b[5]
              P == b[6]
          IN  /\ BigEndian(q.HardwareType) = Field(b, 0, 2)
              /\ BigEndian(q.ProtocolType) = Field(b, 2, 2)
              /\ q.MACLength = H
              /\ q.IPLength = P
              /\ BigEndian(q.Operation) = Field(b, 6, 2)
              /\ q.SenderMAC = Field(b, 8, H)
              /\ q.SenderIP = Field(b, 8 + H, P)
              /\ q.TargetMAC = Field(b, 8 + H + P, H)
              /\ q.TargetIP = Field(b, 8 + 2 * H + P, P)

\* A Packet with 20-byte hardware addresses was marshalled and decoded, the
\* target hardware address at offset 32 of the bytes.
C37_Witness ==
    /\ Marshalled
    /\ Decoded
    /\ codecPkt.p = InfiniBandLiteral
    /\ Len(codecBytes.b) = 56
    /\ Field(codecBytes.b, 32, 20) = InfiniBandPeer
    /\ codecBack.p.TargetMAC = InfiniBandPeer

\* A Packet with 2-byte protocol addresses was marshalled, the target
\* hardware address at offset 16 of the bytes.
C37_ShortProtocolWitness ==
    /\ Marshalled
    /\ codecPkt.p.IPLength = 2
    /\ Field(codecBytes.b, 16, 6) = Broadcast

(***************************************************************************)
(* The decoded Packet and the buffer it was decoded from.                  *)
(***************************************************************************)
\* The next datagram was read into the buffer of a decoded Packet.
Overwritten == codecPc = "overwritten" /\ codecBack.err = "nil"

\* C38: the four address fields of a decoded Packet are copies: when the
\* buffer given to UnmarshalBinary is overwritten after a successful decode,
\* each address field still holds the bytes that were decoded.
C38_DecodedFieldsAreCopies ==
    (Decoded \/ Overwritten) =>
        /\ Deref(codecMem, codecMem.refs.SenderMAC) = codecBack.p.SenderMAC
        /\ Deref(codecMem, codecMem.refs.SenderIP) = codecBack.p.SenderIP
        /\ Deref(codecMem, codecMem.refs.TargetMAC) = codecBack.p.TargetMAC
        /\ Deref(codecMem, codecMem.refs.TargetIP) = codecBack.p.TargetIP

\* The buffer of a decoded request holds other bytes at the offsets of all
\* four address fields.
C38_Witness ==
    /\ Overwritten
    /\ codecBack.p.MACLength = 6
    /\ codecBack.p.IPLength = 4
    /\ Len(codecMem.heap.b) >= 28
    /\ Slice(codecMem.heap.b, 8, 14) # codecBack.p.SenderMAC
    /\ Slice(codecMem.heap.b, 14, 18) # codecBack.p.SenderIP
    /\ Slice(codecMem.heap.b, 18, 24) # codecBack.p.TargetMAC
    /\ Slice(codecMem.heap.b, 24, 28) # codecBack.p.TargetIP

(***************************************************************************)
(* Operations that are neither Request nor Reply.                          *)
(***************************************************************************)
\* The goroutine of the conn is in mux.ServeARP.
InServeARP == muxTask[1].pc # "idle"

\* C39: no operation value is rejected: the bytes MarshalBinary returns hold
\* the operation of the Packet, whatever it is, parseRequest (which decodes
\* them with UnmarshalBinary) returns no error and a Request with that
\* operation, and mux.ServeARP is called with it; a mux without a handler
\* for the operation invokes no handler.
C39_UnknownOperationPassesThrough ==
    \A op \in DispatchOperations :
       parseBuf = DispatchFrame(op) =>
          /\ Field(WirePayload(parseBuf), 6, 2) = BigEndian(op)
          /\ parsePc # "input" =>
                /\ parseRet.err = "nil"
                /\ parseRet.r.Operation = op
          /\ parsePc = "done" => ENABLED DispatchServeARP
          /\ InServeARP => muxTask[1].r.Operation = op
          /\ op \notin DOMAIN muxM =>
                /\ muxCalls = <<>>
                /\ muxTask[1].pc # "running"

\* A request with operation 258 was given to a mux with handlers for Request
\* and for Reply, and ServeARP returned without a handler invoked.
C39_Witness ==
    /\ parseBuf = DispatchFrame(258)
    /\ parseRet.err = "nil"
    /\ parseRet.r.Operation = 258
    /\ DOMAIN muxM = {OperationRequest, OperationReply}
    /\ parsePc = "served"
    /\ ~InServeARP
    /\ muxCalls = <<>>

(***************************************************************************)
(* Bytes after the addresses.                                              *)
(***************************************************************************)
\* UnmarshalBinary returned for the bytes.
Unmarshalled == codecPc \in {"unmarshalled", "overwritten"}

\* Bytes that may follow the addresses: none, the zeros that pad a frame,
\* and bytes of 255.
Paddings == {<<>>, Zeros(18), <<255>>, [i \in 1..40 |-> 255]}

\* C40: UnmarshalBinary returns no error for a buffer that is at least as
\* long as the header and the four addresses of the lengths it declares,
\* and what follows the addresses has no effect: the first 8 + 2*H + 2*P
\* bytes of the buffer, followed by any padding, decode to the same Packet.
C40_TrailingBytesIgnored ==
    (Unmarshalled /\ Len(codecBytes.b) >= 8) =>
        LET b == codecBytes.b
            total == 8 + 2 * b[5] + 2 * b[6]
        IN  Len(b) >= total =>
               /\ codecBack.err = "nil"
               /\ \A pad \in Paddings :
                     UnmarshalBinary(Slice(b, 0, total) \o pad) = codecBack

\* A request followed by 18 bytes of padding was decoded.
C40_Witness ==
    /\ Unmarshalled
    /\ codecBytes.b =
           WireARP(OperationRequest, PeerA, PeerIP, LocalHW, LocalIP)
               \o Zeros(18)
    /\ codecBack.err = "nil"
    /\ codecBack.p.TargetIP = LocalIP
    /\ codecBack =
           UnmarshalBinary(WireARP(OperationRequest, PeerA, PeerIP, LocalHW,
                                   LocalIP))
====
